---- MODULE Spec2Model ----
(***************************************************************************)
(* Aggregation, ranking and sorting logic of the studio analytics          *)
(* dashboard (React view components), as a state machine: the state is the *)
(* props and useState cells of the components, the actions are prop        *)
(* changes and event handlers, and every useMemo / render-time computation *)
(* is an operator over that state.                                         *)
(***************************************************************************)
EXTENDS Integers, Sequences, FiniteSets, TLC

(***************************************************************************)
(* Bounds of the model.                                                    *)
(***************************************************************************)
\* longest `data` array of keyed sessions (Spec)
MaxSessions == 3
\* longest `data` array of sessions with varying numeric fields (SpecMetrics)
MaxMetricSessions == 2
\* longest payroll array (SpecPayroll, SpecSort)
MaxPayroll == 3
\* longest payroll array of the trainer section (SpecTrainer)
MaxTrainers == 2
\* most classes of the `data` array of the sorted tables (SpecSort)
MaxSortRows == 7
\* longest `data` array under the clicked headers (SpecClicks)
MaxClickRecords == 1
\* sessions handed to a trend table (SpecTrends)
MaxTrendSessions == 3
\* processed records handed to a table of the trainer section (SpecYears)
MaxYearRecords == 3
\* trainers whose clients reach the ranking panel (SpecRanks)
MaxRankTrainers == 6
\* clients handed to the client-conversion views (SpecClients)
MaxClients == 2

(***************************************************************************)
(* The variables.  The operators of the tables are functions of their      *)
(* arguments; only the browser's time zone is read from the state.         *)
(***************************************************************************)
VARIABLES
  mounted,        \* the component that is rendered
  timeZone,       \* the time zone of the browser
  data,           \* the `data` prop of the session tables (SessionData[])
  classRanking,   \* useState cells of ClassPerformanceRankingTable (class type)
  enhanced,       \* useState cells of EnhancedClassPerformanceRankingTable
  uidRanking,     \* useState cells of ClassPerformanceRankingTable (uniqueId)
  multiMetric,    \* useState cells of MultiMetricMonthlyTrendsTable
  trends,         \* useState cells of MonthOnMonthTrendsTable
  payrollData,    \* the `data` prop of the payroll views (PayrollData[])
  location,       \* the `location` prop of the payroll tables
  improved,       \* useState cells of ImprovedClassAttendancePayrollTable
  matrix,         \* useState cells of EnhancedClassAttendancePayrollTable
  clientData,     \* the `data` prop of the client-conversion views
  ranks,          \* useState cells of InteractiveClientConversionRanks
  activeLocation, \* useState cell of PowerCycleBarreStrengthSection
  processedData,  \* the array processTrainerData returned, shared by the views
  rendered,       \* the child views whose memo is computed for processedData
  clicked         \* history: the columns whose header was clicked since mount

(***************************************************************************)
(* JavaScript values.  A numeric field of a record is a natural number, or *)
(* absent (reads as undefined); arithmetic on undefined gives NaN.         *)
(***************************************************************************)
Undefined == -1
NaN == -2

IsNumber(x) == x # Undefined /\ x # NaN

\* `x || 0`
OrZero(x) == IF IsNumber(x) THEN x ELSE 0

\* `a + b` on numbers: undefined and NaN operands give NaN
JsAdd(a, b) == IF IsNumber(a) /\ IsNumber(b) THEN a + b ELSE NaN

\* `x > 0`: false for NaN and undefined
JsPositive(x) == IsNumber(x) /\ x > 0

\* `a || b` on strings: the empty (or missing) string is falsy
StrOr(a, b) == IF a # "" THEN a ELSE b

(***************************************************************************)
(* Quotients are kept exact as numerator/denominator pairs.  d = 0 encodes *)
(* the non-finite results of a division: 0/0 is NaN, x/0 is Infinity.      *)
(***************************************************************************)
Zero == [n |-> 0, d |-> 1]
NaNRatio == [n |-> 0, d |-> 0]
Infinity == [n |-> 1, d |-> 0]

\* n / d on two numbers
Quot(n, d) ==
  IF d = 0 THEN (IF n = 0 THEN NaNRatio ELSE Infinity) ELSE [n |-> n, d |-> d]

\* `a / b`
Div(a, b) == IF ~IsNumber(a) \/ ~IsNumber(b) THEN NaNRatio ELSE Quot(a, b)

\* `(a / b) * 100`
Pct(a, b) == IF ~IsNumber(a) \/ ~IsNumber(b) THEN NaNRatio ELSE Quot(100 * a, b)

\* `((cur - prev) / prev) * 100` on two accumulated totals
DeltaPct(cur, prev) == Quot(100 * (cur - prev), prev)

IsFinite(r) == r.d # 0
IsZero(r) == r.d # 0 /\ r.n = 0
\* r <= k and r >= 0 for a finite ratio with a positive denominator
RatioLeq(r, k) == r.d > 0 /\ r.n <= k * r.d
RatioGeq0(r) == r.d > 0 /\ r.n >= 0

\* sign of `a - b` for two ratios (0 when either is NaN: the comparator's
\* NaN result is treated as +0 by Array.prototype.sort)
RatioCmp(a, b) ==
  IF a.d = 0 \/ b.d = 0 THEN 0
  ELSE IF a.n * b.d < b.n * a.d THEN -1
  ELSE IF a.n * b.d > b.n * a.d THEN 1 ELSE 0

\* sign of `a - b` for two numbers
NumCmp(a, b) ==
  IF ~IsNumber(a) \/ ~IsNumber(b) THEN 0
  ELSE IF a < b THEN -1 ELSE IF a > b THEN 1 ELSE 0

(***************************************************************************)
(* Strings.  The strings of the model are a finite vocabulary; lower-      *)
(* casing, substring search and locale order are tabulated over it.        *)
(***************************************************************************)
ToLowerCase(s) ==
  CASE s = "HOSTED Class" -> "hosted class"
    [] s = "Barre" -> "barre"
    [] s = "Cycle" -> "cycle"
    [] s = "Unknown" -> "unknown"
    [] s = "Unknown Class" -> "unknown class"
    [] OTHER -> s

\* `s.includes('hosted')` (case-sensitive substring test)
IncludesHosted(s) == s \in {"hosted class", "hosted"}

\* the strings of the model in locale (collation) order
LocaleOrder ==
  <<"", "09:00", "09:00 (Mon)", "10", "18:00 (Mon)", "2", "2023-12", "2024-01", "2024-02", "Ann", "b",
    "Barre", "Bob", "Cycle", "HOSTED Class", "Kenkere House",
    "Kenkere House, Bengaluru", "Kwality House, Kemps Corner", "Mon",
    "Supreme HQ, Bandra", "unknown", "Unknown", "Unknown Class">>

LocaleRank(s) ==
  IF \E i \in 1..Len(LocaleOrder) : LocaleOrder[i] = s
  THEN CHOOSE i \in 1..Len(LocaleOrder) : LocaleOrder[i] = s
  ELSE 0

\* sign of `a.localeCompare(b)`
LocaleCompare(a, b) ==
  IF a = b THEN 0
  ELSE IF LocaleRank(a) < LocaleRank(b) THEN -1
  ELSE IF LocaleRank(a) > LocaleRank(b) THEN 1 ELSE 0

(***************************************************************************)
(* Plain objects used as maps.  Own property keys enumerate with the       *)
(* canonical array-index keys first, in ascending numeric order, then the  *)
(* other string keys in creation order (Object.keys/values/entries).  An   *)
(* object is modelled as the sequence of its entries in that order; every  *)
(* entry carries its key in the field `key`.                               *)
(***************************************************************************)
\* the numeric value of a key that is a canonical array index, else -1
ArrayIndex(k) ==
  CASE k = "2" -> 2
    [] k = "10" -> 10
    [] OTHER -> -1

IsArrayIndex(k) == ArrayIndex(k) >= 0

ObjHas(obj, k) == \E i \in 1..Len(obj) : obj[i].key = k

ObjIndex(obj, k) == CHOOSE i \in 1..Len(obj) : obj[i].key = k

ObjGet(obj, k) == obj[ObjIndex(obj, k)]

\* number of entries that enumerate before a new key k
ObjSlot(obj, k) ==
  IF IsArrayIndex(k)
  THEN Cardinality({i \in 1..Len(obj) :
         IsArrayIndex(obj[i].key) /\ ArrayIndex(obj[i].key) < ArrayIndex(k)})
  ELSE Len(obj)

\* obj[k] = entry, for a key k the object does not have yet
ObjCreate(obj, k, entry) ==
  LET p == ObjSlot(obj, k)
  IN SubSeq(obj, 1, p) \o <<entry>> \o SubSeq(obj, p + 1, Len(obj))

\* replace the entry of an existing key (in-place field updates)
ObjPut(obj, k, entry) == [obj EXCEPT ![ObjIndex(obj, k)] = entry]

(***************************************************************************)
(* Session records (SessionData).                                          *)
(***************************************************************************)
Session(id, cleaned, ctype, time, checked, cap, booked, late, paid) ==
  [uniqueId |-> id, uniqueId1 |-> id,
   cleanedClass |-> cleaned, classType |-> ctype,
   trainerName |-> "Ann",
   time |-> time, dayOfWeek |-> "Mon", location |-> "Kwality House, Kemps Corner",
   checkedInCount |-> checked, capacity |-> cap,
   bookedCount |-> booked, lateCancelledCount |-> late,
   totalPaid |-> paid, revenue |-> Undefined]

\* pairs <<cleanedClass, classType>>
ClassPairs ==
  {<<"", "Cycle">>, <<"Barre", "Cycle">>, <<"", "HOSTED Class">>}

UniqueIds == {"b", "10", "2"}

\* sessions that differ in their grouping keys
KeySessions ==
  {Session(id, cp[1], cp[2], "09:00", 1, 2, 1, 0, 5) :
     id \in UniqueIds, cp \in ClassPairs}

\* <<checkedInCount, capacity, bookedCount, lateCancelledCount>>: absent,
\* zero and positive counts
MetricCounts ==
  {<<Undefined, Undefined, Undefined, Undefined>>, <<0, 0, 0, 0>>,
   <<2, 1, 1, 2>>, <<2, Undefined, 1, 0>>, <<Undefined, 1, 0, 2>>,
   <<0, 1, 1, 0>>, <<1, 2, 2, 1>>}

\* sessions that differ in their numeric fields
MetricSessions ==
  {Session("b", "Barre", "Cycle", "09:00", n[1], n[2], n[3], n[4], 5) :
     n \in MetricCounts}

(***************************************************************************)
(* Array.prototype.sort.  The comparator is handed over as the matrix      *)
(* c[i, j] of the signs of compare(s[i], s[j]); a NaN result counts as 0.  *)
(* The sort is stable whenever the comparator is consistent.  The order    *)
(* for an inconsistent comparator is left to the engine: the model follows *)
(* V8 for arrays of fewer than 64 elements, where the leading run is       *)
(* counted (a strictly descending one is reversed) and the remaining       *)
(* elements are placed by binary insertion.                                *)
(***************************************************************************)
Front(s) == SubSeq(s, 1, Len(s) - 1)
Last(s) == s[Len(s)]

Reverse(s) == [i \in 1..Len(s) |-> s[Len(s) + 1 - i]]

\* the length of the run that starts the array; idx is the next position
RECURSIVE RunLength(_, _, _, _)
RunLength(c, n, descending, idx) ==
  IF idx > n THEN n
  ELSE LET order == c[idx, idx - 1]
       IN IF (descending /\ order >= 0) \/ (~descending /\ order < 0)
          THEN idx - 1
          ELSE RunLength(c, n, descending, idx + 1)

\* the number of placed elements that stay left of the pivot
RECURSIVE BinarySearch(_, _, _, _, _)
BinarySearch(perm, c, pivot, left, right) ==
  IF left >= right THEN left
  ELSE LET mid == left + ((right - left) \div 2)
       IN IF c[pivot, perm[mid + 1]] < 0
          THEN BinarySearch(perm, c, pivot, left, mid)
          ELSE BinarySearch(perm, c, pivot, mid + 1, right)

\* the elements after the leading run are inserted one by one
RECURSIVE BinaryInsertionSort(_, _, _)
BinaryInsertionSort(perm, c, n) ==
  IF Len(perm) >= n THEN perm
  ELSE LET pivot == Len(perm) + 1
           left == BinarySearch(perm, c, pivot, 0, Len(perm))
       IN BinaryInsertionSort(SubSeq(perm, 1, left) \o <<pivot>>
                                \o SubSeq(perm, left + 1, Len(perm)), c, n)

\* the positions 1..n in sorted order
SortIdx(n, c) ==
  IF n < 2 THEN [i \in 1..n |-> i]
  ELSE LET descending == c[2, 1] < 0
           run == [i \in 1..RunLength(c, n, descending, 3) |-> i]
       IN BinaryInsertionSort(IF descending THEN Reverse(run) ELSE run, c, n)

JsSort(s, c) == LET perm == SortIdx(Len(s), c) IN [p \in 1..Len(s) |-> s[perm[p]]]

\* `direction === 'asc' ? a - b : b - a` on the sign of a - b
Directed(sign, direction) == IF direction = "asc" THEN sign ELSE 0 - sign

\* rows.filter(pred) for a set `keep` of retained positions
RECURSIVE FilterIdx(_, _)
FilterIdx(s, keep) ==
  IF s = <<>> THEN <<>>
  ELSE IF Len(s) \in keep THEN Append(FilterIdx(Front(s), keep), Last(s))
  ELSE FilterIdx(Front(s), keep)

(***************************************************************************)
(* ClassPerformanceRankingTable, grouped by class type.                    *)
(***************************************************************************)
\* `classType.toLowerCase().includes('hosted')`
IsHosted(classType) == IncludesHosted(ToLowerCase(classType))

\* session.cleanedClass || session.classType || 'Unknown'
ClassTypeOf(session) ==
  StrOr(session.cleanedClass, StrOr(session.classType, "Unknown"))

\* the reduce callback
ClassGroupStep(acc, session) ==
  LET classType == ClassTypeOf(session) IN
  IF IsHosted(classType) THEN acc
  ELSE
    LET acc1 == IF ObjHas(acc, classType) THEN acc
                ELSE ObjCreate(acc, classType,
                       [key |-> classType, classType |-> classType,
                        totalSessions |-> 0, totalCapacity |-> 0,
                        totalCheckedIn |-> 0, totalRevenue |-> 0,
                        totalBooked |-> 0, emptySessionsCount |-> 0,
                        revenueGeneratingSessions |-> 0, sessions |-> <<>>])
        c == ObjGet(acc1, classType)
    IN ObjPut(acc1, classType,
         [c EXCEPT
            !.totalSessions = @ + 1,
            !.totalCapacity = @ + OrZero(session.capacity),
            !.totalCheckedIn = @ + OrZero(session.checkedInCount),
            !.totalRevenue = @ + OrZero(session.totalPaid),
            !.totalBooked = @ + OrZero(session.bookedCount),
            !.sessions = Append(@, session),
            !.emptySessionsCount =
               IF OrZero(session.checkedInCount) = 0 THEN @ + 1 ELSE @,
            !.revenueGeneratingSessions =
               IF OrZero(session.totalPaid) > 0 THEN @ + 1 ELSE @])

RECURSIVE ClassGrouped(_)
ClassGrouped(d) ==
  IF d = <<>> THEN <<>> ELSE ClassGroupStep(ClassGrouped(Front(d)), Last(d))

\* mutant of MeetsMinSessions: an exclusive threshold
MeetsMinSessionsExclusive(totalSessions, minSessions) == totalSessions > minSessions

\* `classData.totalSessions >= minSessions`
MeetsMinSessions(totalSessions, minSessions) == totalSessions >= minSessions

\* Object.values(grouped).filter(...)
ClassFiltered(d, minSessions) ==
  LET g == ClassGrouped(d)
  IN FilterIdx(g, {i \in 1..Len(g) : MeetsMinSessions(g[i].totalSessions, minSessions)})

\* the metrics added by enrichedData
ClassEnrich(c) ==
  [key |-> c.key, classType |-> c.classType, sessions |-> c.sessions,
   totalSessions |-> c.totalSessions, totalCapacity |-> c.totalCapacity,
   totalCheckedIn |-> c.totalCheckedIn, totalRevenue |-> c.totalRevenue,
   totalBooked |-> c.totalBooked, emptySessionsCount |-> c.emptySessionsCount,
   revenueGeneratingSessions |-> c.revenueGeneratingSessions,
   fillRate |-> IF c.totalCapacity > 0
                THEN Pct(c.totalCheckedIn, c.totalCapacity) ELSE Zero,
   showUpRate |-> IF c.totalBooked > 0
                  THEN Pct(c.totalCheckedIn, c.totalBooked) ELSE Zero,
   avgRevenue |-> IF c.totalSessions > 0
                  THEN Div(c.totalRevenue, c.totalSessions) ELSE Zero,
   revenuePerAttendee |-> IF c.totalCheckedIn > 0
                          THEN Div(c.totalRevenue, c.totalCheckedIn) ELSE Zero,
   utilizationRate |-> IF c.totalSessions > 0
                       THEN Pct(c.totalSessions - c.emptySessionsCount, c.totalSessions)
                       ELSE Zero,
   avgClassSize |-> IF c.totalSessions > 0
                    THEN Div(c.totalCheckedIn, c.totalSessions) ELSE Zero,
   emptySessionRate |-> IF c.totalSessions > 0
                        THEN Pct(c.emptySessionsCount, c.totalSessions) ELSE Zero,
   revenueEfficiency |-> IF c.totalSessions > 0
                         THEN Pct(c.revenueGeneratingSessions, c.totalSessions)
                         ELSE Zero]

ClassEnriched(d, minSessions) ==
  LET f == ClassFiltered(d, minSessions) IN [i \in 1..Len(f) |-> ClassEnrich(f[i])]

\* kinds of the columns a header click can sort by
StringFields == {"classType", "className", "uniqueId", "location", "teacherName",
                 "monthYear", "dimension"}
RatioFields == {"fillRate", "showUpRate", "avgRevenue", "revenuePerAttendee",
                "utilizationRate", "avgClassSize", "emptySessionRate",
                "revenueEfficiency", "avgCheckIns", "fillPercentage",
                "cancellationRate", "classAvgWithEmpty", "classAvgWithoutEmpty",
                "revenuePerSession", "cancelRate"}

\* the comparator of enrichedData.sort: localeCompare on strings, a - b on numbers
ClassCompare(a, b, sortBy, sortDirection) ==
  IF sortBy \in StringFields
  THEN Directed(LocaleCompare(a[sortBy], b[sortBy]), sortDirection)
  ELSE IF sortBy \in RatioFields
  THEN Directed(RatioCmp(a[sortBy], b[sortBy]), sortDirection)
  ELSE Directed(NumCmp(a[sortBy], b[sortBy]), sortDirection)

\* processedData of the class-type table
ClassProcessedData(d, st) ==
  IF Len(d) = 0 THEN <<>>
  ELSE LET e == ClassEnriched(d, st.minSessions)
       IN JsSort(e, [i \in 1..Len(e), j \in 1..Len(e) |->
                       ClassCompare(e[i], e[j], st.sortBy, st.sortDirection)])

(***************************************************************************)
(* EnhancedClassPerformanceRankingTable.                                   *)
(***************************************************************************)
GroupingOptions == {"uniqueId1", "timeSlot", "location", "classType"}

\* the options of the Min Sessions select
MinSessionsOptions == {1, 2, 5, 10, 20}

\* switch (groupingOption)
EnhGroupKey(session, groupingOption) ==
  CASE groupingOption = "uniqueId1" -> StrOr(session.uniqueId1, "unknown")
    [] groupingOption = "timeSlot" -> session.time \o "-" \o session.dayOfWeek
    [] groupingOption = "location" -> StrOr(session.location, "unknown")
    [] groupingOption = "classType" ->
         StrOr(session.cleanedClass, StrOr(session.classType, "unknown"))
    [] OTHER -> StrOr(session.uniqueId1, "unknown")

\* the reduce callback
EnhGroupStep(acc, session, groupingOption) ==
  LET groupKey == EnhGroupKey(session, groupingOption)
      acc1 == IF ObjHas(acc, groupKey) THEN acc
              ELSE ObjCreate(acc, groupKey,
                     [key |-> groupKey, uniqueId1 |-> session.uniqueId1,
                      className |-> StrOr(session.cleanedClass,
                                          StrOr(session.classType, "Unknown")),
                      dayOfWeek |-> session.dayOfWeek, time |-> session.time,
                      location |-> session.location,
                      totalSessions |-> 0, emptySessions |-> 0,
                      nonEmptySessions |-> 0, totalCheckedIn |-> 0,
                      totalLateCancelled |-> 0, totalBooked |-> 0,
                      totalCapacity |-> 0, totalRevenue |-> 0,
                      sessions |-> <<>>])
      c == ObjGet(acc1, groupKey)
  IN ObjPut(acc1, groupKey,
       [c EXCEPT
          !.totalSessions = @ + 1,
          !.totalCapacity = @ + OrZero(session.capacity),
          !.totalCheckedIn = @ + OrZero(session.checkedInCount),
          !.totalRevenue = @ + OrZero(session.totalPaid),
          !.totalBooked = @ + OrZero(session.bookedCount),
          !.totalLateCancelled = @ + OrZero(session.lateCancelledCount),
          !.sessions = Append(@, session),
          !.emptySessions = IF OrZero(session.checkedInCount) = 0 THEN @ + 1 ELSE @,
          !.nonEmptySessions = IF OrZero(session.checkedInCount) = 0 THEN @ ELSE @ + 1])

RECURSIVE EnhGrouped(_, _)
EnhGrouped(d, groupingOption) ==
  IF d = <<>> THEN <<>>
  ELSE EnhGroupStep(EnhGrouped(Front(d), groupingOption), Last(d), groupingOption)

\* the derived metrics of enrichedData
EnhEnrich(c) ==
  [key |-> c.key, uniqueId1 |-> c.uniqueId1, className |-> c.className,
   dayOfWeek |-> c.dayOfWeek, time |-> c.time, location |-> c.location,
   totalSessions |-> c.totalSessions, emptySessions |-> c.emptySessions,
   nonEmptySessions |-> c.nonEmptySessions, totalCheckedIn |-> c.totalCheckedIn,
   totalLateCancelled |-> c.totalLateCancelled, totalBooked |-> c.totalBooked,
   totalCapacity |-> c.totalCapacity, totalRevenue |-> c.totalRevenue,
   sessions |-> c.sessions,
   classAvgWithEmpty |-> IF c.totalSessions > 0
                         THEN Div(c.totalCheckedIn, c.totalSessions) ELSE Zero,
   classAvgWithoutEmpty |-> IF c.nonEmptySessions > 0
                            THEN Div(c.totalCheckedIn, c.nonEmptySessions) ELSE Zero,
   fillRate |-> IF c.totalCapacity > 0
                THEN Pct(c.totalCheckedIn, c.totalCapacity) ELSE Zero,
   cancellationRate |-> IF c.totalBooked > 0
                        THEN Pct(c.totalLateCancelled, c.totalBooked) ELSE Zero,
   showUpRate |-> IF c.totalBooked > 0
                  THEN Pct(c.totalCheckedIn, c.totalBooked) ELSE Zero,
   utilizationRate |-> IF c.totalSessions > 0
                       THEN Pct(c.totalSessions - c.emptySessions, c.totalSessions)
                       ELSE Zero,
   revenuePerSession |-> IF c.totalSessions > 0
                         THEN Div(c.totalRevenue, c.totalSessions) ELSE Zero,
   revenuePerAttendee |-> IF c.totalCheckedIn > 0
                          THEN Div(c.totalRevenue, c.totalCheckedIn) ELSE Zero]

\* Object.values(grouped).filter(...).map(...): the rows before the sort
EnhEnriched(d, st) ==
  LET g == EnhGrouped(d, st.groupingOption)
      f == FilterIdx(g, {i \in 1..Len(g) :
                          MeetsMinSessions(g[i].totalSessions, st.minSessions)})
  IN [i \in 1..Len(f) |-> EnhEnrich(f[i])]

\* processedData: sorted by rankingCriteria in sortDirection
EnhProcessedData(d, st) ==
  IF Len(d) = 0 THEN <<>>
  ELSE LET e == EnhEnriched(d, st)
       IN JsSort(e, [i \in 1..Len(e), j \in 1..Len(e) |->
                       ClassCompare(e[i], e[j], st.rankingCriteria, st.sortDirection)])

(***************************************************************************)
(* ClassPerformanceRankingTable, grouped by uniqueId.                      *)
(***************************************************************************)
\* the reduce callback of classGroups
UidGroupStep(acc, session) ==
  LET uniqueId == StrOr(session.uniqueId, "unknown")
      acc1 == IF ObjHas(acc, uniqueId) THEN acc
              ELSE ObjCreate(acc, uniqueId, [key |-> uniqueId, sessions |-> <<>>])
      g == ObjGet(acc1, uniqueId)
  IN ObjPut(acc1, uniqueId, [g EXCEPT !.sessions = Append(@, session)])

RECURSIVE ClassGroups(_)
ClassGroups(d) ==
  IF d = <<>> THEN <<>> ELSE UidGroupStep(ClassGroups(Front(d)), Last(d))

\* sessions.reduce((sum, s) => sum + s.checkedInCount, 0)
RECURSIVE SumCheckedIn(_)
SumCheckedIn(ss) ==
  IF ss = <<>> THEN 0 ELSE JsAdd(SumCheckedIn(Front(ss)), Last(ss).checkedInCount)

\* sessions.reduce((sum, s) => sum + s.capacity, 0)
RECURSIVE SumCapacity(_)
SumCapacity(ss) ==
  IF ss = <<>> THEN 0 ELSE JsAdd(SumCapacity(Front(ss)), Last(ss).capacity)

\* sessions.reduce((sum, s) => sum + (s.revenue || s.totalPaid || 0), 0)
RECURSIVE SumRevenue(_)
SumRevenue(ss) ==
  IF ss = <<>> THEN 0
  ELSE SumRevenue(Front(ss))
       + (IF OrZero(Last(ss).revenue) # 0 THEN Last(ss).revenue
          ELSE OrZero(Last(ss).totalPaid))

\* sessions.reduce((sum, s) => sum + (s.lateCancelledCount || 0), 0)
RECURSIVE SumLateCancelled(_)
SumLateCancelled(ss) ==
  IF ss = <<>> THEN 0
  ELSE SumLateCancelled(Front(ss)) + OrZero(Last(ss).lateCancelledCount)

\* the map callback of classPerformance
UidPerformanceRow(g) ==
  LET sessions == g.sessions
      firstSession == sessions[1]
      totalCheckIns == SumCheckedIn(sessions)
      totalCapacity == SumCapacity(sessions)
  IN [uniqueId |-> g.key,
      className |-> StrOr(firstSession.cleanedClass,
                          StrOr(firstSession.classType, "Unknown Class")),
      trainerName |-> firstSession.trainerName,
      dayOfWeek |-> firstSession.dayOfWeek, time |-> firstSession.time,
      location |-> firstSession.location,
      sessions |-> sessions, sessionCount |-> Len(sessions),
      avgCheckIns |-> Div(totalCheckIns, Len(sessions)),
      fillPercentage |-> IF JsPositive(totalCapacity)
                         THEN Pct(totalCheckIns, totalCapacity) ELSE Zero,
      totalRevenue |-> SumRevenue(sessions),
      totalCheckIns |-> totalCheckIns,
      totalCapacity |-> totalCapacity,
      totalLateCancellations |-> SumLateCancelled(sessions)]

\* the filter of classPerformance
UidKeeps(row) == row.sessionCount >= 2 /\ ~IsHosted(row.className)

\* classPerformance: Object.entries(classGroups).map(...).filter(...)
ClassPerformance(d) ==
  IF Len(d) = 0 THEN <<>>
  ELSE LET g == ClassGroups(d)
           rows == [i \in 1..Len(g) |-> UidPerformanceRow(g[i])]
       IN FilterIdx(rows, {i \in 1..Len(rows) : UidKeeps(rows[i])})

\* the columns of a row that hold strings
UidStringFields == {"className", "trainerName", "dayOfWeek", "time", "location"}

\* the comparator of sortedPerformance
UidCompare(a, b, sortField, sortDirection) ==
  IF sortField \in UidStringFields
  THEN Directed(LocaleCompare(a[sortField], b[sortField]), sortDirection)
  ELSE IF sortField \in RatioFields
  THEN Directed(RatioCmp(a[sortField], b[sortField]), sortDirection)
  ELSE Directed(NumCmp(a[sortField], b[sortField]), sortDirection)

\* sortedPerformance: [...classPerformance].sort(...)
SortedPerformance(d, st) ==
  LET e == ClassPerformance(d)
  IN JsSort(e, [i \in 1..Len(e), j \in 1..Len(e) |->
                  UidCompare(e[i], e[j], st.sortField, st.sortDirection)])

\* itemsPerPage
ItemsPerPage == 10

\* Math.ceil(sortedPerformance.length / itemsPerPage)
TotalPages(sorted) == (Len(sorted) + ItemsPerPage - 1) \div ItemsPerPage

\* Array.prototype.slice(start, end) for 0 <= start <= end
JsSlice(s, start, end) ==
  SubSeq(s, start + 1, IF Len(s) < end THEN Len(s) ELSE end)

\* paginatedData
PaginatedData(sorted, currentPage) ==
  LET startIndex == (currentPage - 1) * ItemsPerPage
  IN JsSlice(sorted, startIndex, startIndex + ItemsPerPage)

\* the numbers on the page buttons
PageNums(currentPage, totalPages) ==
  {IF totalPages <= 5 THEN i + 1
   ELSE IF currentPage <= 3 THEN i + 1
   ELSE IF currentPage >= totalPages - 2 THEN totalPages - 4 + i
   ELSE currentPage - 2 + i :
     i \in 0..((IF totalPages < 5 THEN totalPages ELSE 5) - 1)}

\* the arguments the enabled pager controls pass to handlePageChange
PagerRequests(currentPage, totalPages) ==
  IF totalPages > 1
  THEN PageNums(currentPage, totalPages)
       \cup (IF currentPage = 1 THEN {} ELSE {currentPage - 1})
       \cup (IF currentPage = totalPages THEN {} ELSE {currentPage + 1})
  ELSE {}

\* the sequence of hook calls of one render of the uniqueId table
HookCalls(d) ==
  IF Len(d) = 0
  THEN <<"useState", "useState", "useState", "useState">>
  ELSE <<"useState", "useState", "useState", "useState", "useMemo", "useMemo">>

(***************************************************************************)
(* Payroll records (PayrollData) and the location filter shared by the two *)
(* payroll tables.                                                         *)
(***************************************************************************)
PayrollRecord(loc, teacher, month, sessions, customers, paid, empty, nonEmpty) ==
  [location |-> loc, teacherName |-> teacher, monthYear |-> month,
   totalSessions |-> sessions, totalCustomers |-> customers, totalPaid |-> paid,
   totalEmptySessions |-> empty, totalNonEmptySessions |-> nonEmpty]

\* the keys of locationMap (every key maps to itself)
LocationMapKeys ==
  {"Kwality House, Kemps Corner", "Supreme HQ, Bandra", "Kenkere House"}

\* `item.location?.includes('Kenkere')`
IncludesKenkere(s) == s \in {"Kenkere House", "Kenkere House, Bengaluru"}

\* the `location` prop values of the model ("" stands for an absent prop)
LocationProps ==
  {"", "all", "Kwality House, Kemps Corner", "Kenkere House", "Elsewhere"}

\* the filter callback
PayrollKeeps(item, loc) ==
  item.location = loc \/ (loc = "Kenkere House" /\ IncludesKenkere(item.location))

\* filteredData
PayrollFiltered(d, loc) ==
  IF loc # "" /\ loc # "all" /\ loc \in LocationMapKeys
  THEN FilterIdx(d, {i \in 1..Len(d) : PayrollKeeps(d[i], loc)})
  ELSE d

(***************************************************************************)
(* ImprovedClassAttendancePayrollTable: rows by location, teacher, month.  *)
(***************************************************************************)
\* mutant of AccAdd: the accumulator is overwritten instead of added to
AccOverwrite(acc, x) == OrZero(x)

\* `acc += x || 0`
AccAdd(acc, x) == acc + OrZero(x)

\* the reduce callback
ImprovedGroupStep(acc, item) ==
  LET key == item.location \o "-" \o item.teacherName \o "-" \o item.monthYear
      acc1 == IF ObjHas(acc, key) THEN acc
              ELSE ObjCreate(acc, key,
                     [key |-> key, location |-> item.location,
                      teacherName |-> item.teacherName, monthYear |-> item.monthYear,
                      totalSessions |-> 0, totalCustomers |-> 0, totalPaid |-> 0,
                      emptySession |-> 0, nonEmptySession |-> 0])
      entry == ObjGet(acc1, key)
  IN ObjPut(acc1, key,
       [entry EXCEPT
          !.totalSessions = AccAdd(@, item.totalSessions),
          !.totalCustomers = AccAdd(@, item.totalCustomers),
          !.totalPaid = AccAdd(@, item.totalPaid),
          !.emptySession = AccAdd(@, item.totalEmptySessions),
          !.nonEmptySession = AccAdd(@, item.totalNonEmptySessions)])

RECURSIVE ImprovedGrouped(_)
ImprovedGrouped(d) ==
  IF d = <<>> THEN <<>> ELSE ImprovedGroupStep(ImprovedGrouped(Front(d)), Last(d))

\* the assumed capacity of a session
AssumedCapacity == 15

\* prevMonthKey.  new Date(monthYear + '-01') is midnight UTC of the first
\* day of the month, and setMonth, getMonth and getFullYear work in local
\* time.  Ahead of UTC the local date is the first of the month.  Behind UTC
\* it is the last day of the month before: one month back from Jan 31 is
\* Dec 31, and from Dec 31 it is Nov 31, which overflows to Dec 1
PrevMonthKey(monthYear) ==
  IF timeZone = "America/New_York"
  THEN CASE monthYear = "2024-02" -> "2023-12"
         [] monthYear = "2024-01" -> "2023-12"
         [] monthYear = "2023-12" -> "2023-10"
         [] OTHER -> "NaN-NaN"
  ELSE CASE monthYear = "2024-02" -> "2024-01"
         [] monthYear = "2024-01" -> "2023-12"
         [] monthYear = "2023-12" -> "2023-11"
         [] OTHER -> "NaN-NaN"

\* `prev > 0 ? ((cur - prev) / prev) * 100 : 0`
Change(cur, prev) == IF prev > 0 THEN DeltaPct(cur, prev) ELSE Zero

\* item.fillRate as computed by the map callback
ImprovedFillRate(item) ==
  IF item.totalSessions * AssumedCapacity > 0
  THEN Pct(item.totalCustomers, item.totalSessions * AssumedCapacity) ELSE Zero

\* a - b on two finite ratios
RatioSub(a, b) == [n |-> a.n * b.d - b.n * a.d, d |-> a.d * b.d]

\* the map callback on the i-th grouped row: metrics and trends.  The rows
\* are updated in place in emission order, so a previous-month row that is
\* emitted later still carries its initial fillRate 0.
ImprovedResult(g, i) ==
  LET item == g[i]
      prevIdx == {j \in 1..Len(g) :
                    /\ g[j].location = item.location
                    /\ g[j].teacherName = item.teacherName
                    /\ g[j].monthYear = PrevMonthKey(item.monthYear)}
      hasPrev == prevIdx # {}
      p == CHOOSE j \in prevIdx : \A k \in prevIdx : j <= k
      prevFill == IF p < i THEN ImprovedFillRate(g[p]) ELSE Zero
  IN [key |-> item.key, location |-> item.location,
      teacherName |-> item.teacherName, monthYear |-> item.monthYear,
      totalSessions |-> item.totalSessions, totalCustomers |-> item.totalCustomers,
      totalPaid |-> item.totalPaid, emptySession |-> item.emptySession,
      nonEmptySession |-> item.nonEmptySession,
      classAvgWithEmpty |-> IF item.totalSessions > 0
                            THEN Div(item.totalCustomers, item.totalSessions) ELSE Zero,
      classAvgWithoutEmpty |-> IF item.nonEmptySession > 0
                               THEN Div(item.totalCustomers, item.nonEmptySession)
                               ELSE Zero,
      fillRate |-> ImprovedFillRate(item),
      cancelRate |-> IF item.totalSessions > 0
                     THEN Pct(item.emptySession, item.totalSessions) ELSE Zero,
      revenuePerSession |-> IF item.totalSessions > 0
                            THEN Div(item.totalPaid, item.totalSessions) ELSE Zero,
      utilizationRate |-> IF item.totalSessions > 0
                          THEN Quot(100 * (item.totalSessions - item.emptySession),
                                    item.totalSessions)
                          ELSE Zero,
      hasTrends |-> hasPrev,
      sessionsChange |-> IF hasPrev
                         THEN Change(item.totalSessions, g[p].totalSessions) ELSE Zero,
      customersChange |-> IF hasPrev
                          THEN Change(item.totalCustomers, g[p].totalCustomers)
                          ELSE Zero,
      revenueChange |-> IF hasPrev
                        THEN Change(item.totalPaid, g[p].totalPaid) ELSE Zero,
      fillRateChange |-> IF hasPrev
                         THEN RatioSub(ImprovedFillRate(item), prevFill) ELSE Zero]

\* results, before the sort
ImprovedResults(d, loc) ==
  LET g == ImprovedGrouped(PayrollFiltered(d, loc))
  IN [i \in 1..Len(g) |-> ImprovedResult(g, i)]

\* processedData of the improved payroll table
ImprovedProcessedData(d, loc, st) ==
  IF Len(d) = 0 THEN <<>>
  ELSE LET e == ImprovedResults(d, loc)
       IN JsSort(e, [i \in 1..Len(e), j \in 1..Len(e) |->
                       ClassCompare(e[i], e[j], st.sortBy, st.sortDirection)])

(***************************************************************************)
(* EnhancedClassAttendancePayrollTable (the payroll matrix): one row per   *)
(* location and teacher with a bucket per month and the row totals.        *)
(***************************************************************************)
\* Number(x.toFixed(1)) of a non-negative finite ratio, in tenths
ToFixed1(r) == [n |-> (20 * r.n + r.d) \div (2 * r.d), d |-> 10]

\* the derived metrics of a month bucket, recomputed after every record
MonthMetrics(m) ==
  LET totalCapacity == m.totalSessions * AssumedCapacity IN
  [m EXCEPT
     !.classAvgWithEmpty = IF m.totalSessions > 0
                           THEN ToFixed1(Div(m.totalCustomers, m.totalSessions))
                           ELSE Zero,
     !.classAvgWithoutEmpty = IF m.nonEmptySession > 0
                              THEN ToFixed1(Div(m.totalCustomers, m.nonEmptySession))
                              ELSE Zero,
     !.fillRate = IF totalCapacity > 0
                  THEN ToFixed1(Pct(m.totalCustomers, totalCapacity)) ELSE Zero,
     !.cancelRate = IF m.totalSessions > 0
                    THEN ToFixed1(Pct(m.emptySession, m.totalSessions)) ELSE Zero]

\* the reduce callback
MatrixGroupStep(acc, item) ==
  LET key == item.location \o "-" \o item.teacherName
      acc1 == IF ObjHas(acc, key) THEN acc
              ELSE ObjCreate(acc, key,
                     [key |-> key, location |-> item.location,
                      teacherName |-> item.teacherName, monthlyData |-> <<>>,
                      totals |-> [totalSessions |-> 0, totalCustomers |-> 0,
                                  totalPaid |-> 0, totalEmptySessions |-> 0,
                                  totalNonEmptySessions |-> 0]])
      entry == ObjGet(acc1, key)
      months1 == IF ObjHas(entry.monthlyData, item.monthYear) THEN entry.monthlyData
                 ELSE ObjCreate(entry.monthlyData, item.monthYear,
                        [key |-> item.monthYear,
                         totalSessions |-> 0, totalCustomers |-> 0, totalPaid |-> 0,
                         emptySession |-> 0, nonEmptySession |-> 0,
                         classAvgWithEmpty |-> Zero, classAvgWithoutEmpty |-> Zero,
                         fillRate |-> Zero, cancelRate |-> Zero])
      monthData == ObjGet(months1, item.monthYear)
      monthData1 == [monthData EXCEPT
                       !.totalSessions = AccAdd(@, item.totalSessions),
                       !.totalCustomers = AccAdd(@, item.totalCustomers),
                       !.totalPaid = AccAdd(@, item.totalPaid),
                       !.emptySession = AccAdd(@, item.totalEmptySessions),
                       !.nonEmptySession = AccAdd(@, item.totalNonEmptySessions)]
  IN ObjPut(acc1, key,
       [entry EXCEPT
          !.monthlyData = ObjPut(months1, item.monthYear, MonthMetrics(monthData1)),
          !.totals = [@ EXCEPT
             !.totalSessions = AccAdd(@, item.totalSessions),
             !.totalCustomers = AccAdd(@, item.totalCustomers),
             !.totalPaid = AccAdd(@, item.totalPaid),
             !.totalEmptySessions = AccAdd(@, item.totalEmptySessions),
             !.totalNonEmptySessions = AccAdd(@, item.totalNonEmptySessions)]])

RECURSIVE MatrixGrouped(_)
MatrixGrouped(d) ==
  IF d = <<>> THEN <<>> ELSE MatrixGroupStep(MatrixGrouped(Front(d)), Last(d))

\* the columns the headers of the matrix sort by
MatrixColumns == {"location", "teacherName", "totals.totalSessions", "totals.totalPaid"}

\* `a[sortBy] || a.totals[sortBy] || 0`: only location and teacherName are
\* properties of a row or of its totals; the dotted names read as undefined
MatrixSortValue(row, sortBy) ==
  CASE sortBy = "location" -> row.location
    [] sortBy = "teacherName" -> row.teacherName
    [] OTHER -> ""

\* the comparator of tableData: localeCompare when aVal is a (non-empty)
\* string, else aVal - bVal on the fallback 0
MatrixCompare(a, b, sortBy, sortDirection) ==
  LET aVal == MatrixSortValue(a, sortBy)
      bVal == MatrixSortValue(b, sortBy)
  IN IF aVal # "" THEN Directed(LocaleCompare(aVal, bVal), sortDirection)
     ELSE 0

\* months: the distinct monthYear values in ascending order
MonthOrder == <<"2023-12", "2024-01", "2024-02">>

Months(filtered) ==
  LET present == {filtered[i].monthYear : i \in 1..Len(filtered)}
  IN FilterIdx(MonthOrder, {i \in 1..Len(MonthOrder) : MonthOrder[i] \in present})

\* processedData.tableData of the payroll matrix
MatrixTableData(d, loc, st) ==
  IF Len(d) = 0 THEN <<>>
  ELSE LET e == MatrixGrouped(PayrollFiltered(d, loc))
       IN JsSort(e, [i \in 1..Len(e), j \in 1..Len(e) |->
                       MatrixCompare(e[i], e[j], st.sortBy, st.sortDirection)])

\* row.monthlyData[month]: the bucket, or undefined
Bucket(row, month) ==
  IF ObjHas(row.monthlyData, month)
  THEN [present |-> TRUE, fields |-> ObjGet(row.monthlyData, month)]
  ELSE [present |-> FALSE]

\* `bucket[metric] || 0`; a rounded ratio is read as its numerator in tenths
MetricOf(bucket, metric) ==
  IF metric \in RatioFields THEN bucket.fields[metric].n ELSE bucket.fields[metric]

\* the value null of getMonthTrend: no trend indicator
NoTrend == [isNull |-> TRUE, change |-> Zero]

\* getMonthTrend
GetMonthTrend(currentMonth, previousMonth, metric) ==
  IF ~previousMonth.present \/ ~currentMonth.present THEN NoTrend
  ELSE LET current == MetricOf(currentMonth, metric)
           previous == MetricOf(previousMonth, metric)
           change == DeltaPct(current, previous)
       IN IF previous = 0 THEN NoTrend
          ELSE IF 10 * (IF change.n < 0 THEN 0 - change.n ELSE change.n) < change.d
          THEN NoTrend
          ELSE [isNull |-> FALSE, change |-> change]

\* the metrics whose trend a month cell renders
TrendMetrics == {"totalSessions", "totalPaid", "totalCustomers", "fillRate"}

\* the cells of the matrix that render trend indicators: row, month column
TrendCells(rows, months) ==
  {c \in (1..Len(rows)) \X (1..Len(months)) : Bucket(rows[c[1]], months[c[2]]).present}

\* prevMonth of the cell in column mi: the bucket of the column before it
PrevMonth(row, months, mi) ==
  IF mi > 1 THEN Bucket(row, months[mi - 1]) ELSE [present |-> FALSE]

(***************************************************************************)
(* InteractiveClientConversionRanks: per-trainer statistics.  A Map keeps  *)
(* its keys in insertion order, whatever the key.                          *)
(***************************************************************************)
Client(trainer, isNew, conversionStatus, retentionStatus, ltv) ==
  [trainerName |-> trainer, isNew |-> isNew, conversionStatus |-> conversionStatus,
   retentionStatus |-> retentionStatus, ltv |-> ltv]

\* `String(client.isNew || '').includes('New')`
IncludesNew(s) == s \in {"New", "New - Other"}

\* stats.set(k, entry) for a key the map does not have yet
MapCreate(map, entry) == Append(map, entry)

\* the forEach callback of trainerStats
TrainerStatStep(stats, client) ==
  LET trainer == StrOr(client.trainerName, "Unknown")
      stats1 == IF ObjHas(stats, trainer) THEN stats
                ELSE MapCreate(stats,
                       [key |-> trainer, name |-> trainer, totalClients |-> 0,
                        newMembers |-> 0, converted |-> 0, retained |-> 0,
                        totalLTV |-> 0])
      trainerStat == ObjGet(stats1, trainer)
  IN ObjPut(stats1, trainer,
       [trainerStat EXCEPT
          !.totalClients = @ + 1,
          !.totalLTV = @ + OrZero(client.ltv),
          !.newMembers = IF IncludesNew(client.isNew) THEN @ + 1 ELSE @,
          !.converted = IF client.conversionStatus = "Converted" THEN @ + 1 ELSE @,
          !.retained = IF client.retentionStatus = "Retained" THEN @ + 1 ELSE @])

RECURSIVE TrainerStatMap(_)
TrainerStatMap(d) ==
  IF d = <<>> THEN <<>> ELSE TrainerStatStep(TrainerStatMap(Front(d)), Last(d))

\* mutant of SafePct: the guard is missing
UnguardedPct(num, den) == Pct(num, den)

\* `den > 0 ? (num / den) * 100 : 0`
SafePct(num, den) == IF den > 0 THEN Pct(num, den) ELSE Zero

\* `den > 0 ? num / den : 0`
SafeDiv(num, den) == IF den > 0 THEN Div(num, den) ELSE Zero

\* trainerStats
TrainerStats(d) ==
  LET m == TrainerStatMap(d)
  IN [i \in 1..Len(m) |->
        [key |-> m[i].key, name |-> m[i].name, totalClients |-> m[i].totalClients,
         newMembers |-> m[i].newMembers, converted |-> m[i].converted,
         retained |-> m[i].retained, totalLTV |-> m[i].totalLTV,
         conversionRate |-> SafePct(m[i].converted, m[i].newMembers),
         avgLTV |-> SafeDiv(m[i].totalLTV, m[i].totalClients)]]

\* a client with the location fields read by locationStats
RankClient(trainer, firstVisitLocation, homeLocation, isNew, conversionStatus, ltv) ==
  Client(trainer, isNew, conversionStatus, "Retained", ltv)
    @@ [firstVisitLocation |-> firstVisitLocation, homeLocation |-> homeLocation]

\* the forEach callback of locationStats
LocationStatStep(stats, client) ==
  LET loc == StrOr(client.firstVisitLocation, StrOr(client.homeLocation, "Unknown"))
      stats1 == IF ObjHas(stats, loc) THEN stats
                ELSE MapCreate(stats,
                       [key |-> loc, name |-> loc, totalClients |-> 0,
                        newMembers |-> 0, converted |-> 0, retained |-> 0,
                        totalLTV |-> 0])
      locationStat == ObjGet(stats1, loc)
  IN ObjPut(stats1, loc,
       [locationStat EXCEPT
          !.totalClients = @ + 1,
          !.totalLTV = @ + OrZero(client.ltv),
          !.newMembers = IF IncludesNew(client.isNew) THEN @ + 1 ELSE @,
          !.converted = IF client.conversionStatus = "Converted" THEN @ + 1 ELSE @,
          !.retained = IF client.retentionStatus = "Retained" THEN @ + 1 ELSE @])

RECURSIVE LocationStatMap(_)
LocationStatMap(d) ==
  IF d = <<>> THEN <<>> ELSE LocationStatStep(LocationStatMap(Front(d)), Last(d))

\* locationStats
LocationStats(d) ==
  LET m == LocationStatMap(d)
  IN [i \in 1..Len(m) |->
        [key |-> m[i].key, name |-> m[i].name, totalClients |-> m[i].totalClients,
         newMembers |-> m[i].newMembers, converted |-> m[i].converted,
         retained |-> m[i].retained, totalLTV |-> m[i].totalLTV,
         conversionRate |-> SafePct(m[i].converted, m[i].newMembers),
         avgLTV |-> SafeDiv(m[i].totalLTV, m[i].totalClients)]]

RankingTypes == {"trainers_conversion", "trainers_ltv", "locations_conversion"}
ViewTypes == {"top", "bottom"}

\* the switch of getCurrentRankings
RankingSource(trainerStats, locationStats, activeRankingType) ==
  CASE activeRankingType = "trainers_conversion" ->
         [sourceData |-> trainerStats, sortKey |-> "conversionRate", filterMinimum |-> 3]
    [] activeRankingType = "trainers_ltv" ->
         [sourceData |-> trainerStats, sortKey |-> "avgLTV", filterMinimum |-> 1]
    [] activeRankingType = "locations_conversion" ->
         [sourceData |-> locationStats, sortKey |-> "conversionRate", filterMinimum |-> 1]

\* `activeRankingType.includes('conversion')`
IncludesConversion(activeRankingType) ==
  activeRankingType \in {"trainers_conversion", "locations_conversion"}

\* mutant of MeetsMinimum: the minimum is exclusive
MeetsMinimumExclusive(item, activeRankingType, filterMinimum) ==
  IF IncludesConversion(activeRankingType) THEN item.newMembers > filterMinimum
  ELSE item.totalClients > filterMinimum

\* the filter callback of getCurrentRankings
MeetsMinimum(item, activeRankingType, filterMinimum) ==
  IF IncludesConversion(activeRankingType) THEN item.newMembers >= filterMinimum
  ELSE item.totalClients >= filterMinimum

\* sorted.slice(0, n)
SliceFirst(s, n) == SubSeq(s, 1, IF Len(s) < n THEN Len(s) ELSE n)

\* getCurrentRankings
GetCurrentRankings(trainerStats, locationStats, st) ==
  LET src == RankingSource(trainerStats, locationStats, st.activeRankingType)
      Keep(item) == MeetsMinimum(item, st.activeRankingType, src.filterMinimum)
      filtered == SelectSeq(src.sourceData, Keep)
      c == [a \in 1..Len(filtered), b \in 1..Len(filtered) |->
              IF st.activeViewType = "top"
              THEN RatioCmp(filtered[b][src.sortKey], filtered[a][src.sortKey])
              ELSE RatioCmp(filtered[a][src.sortKey], filtered[b][src.sortKey])]
      sorted == JsSort(filtered, c)
  IN SliceFirst(sorted, 5)

(***************************************************************************)
(* PowerCycleBarreStrengthSection: the payroll records are filtered, then  *)
(* mapped by processTrainerData; the resulting array is handed to every    *)
(* child view as `data`.                                                   *)
(***************************************************************************)
\* a payroll record with its per-format fields: cycle and barre are
\* <<sessions, customers, paid>>
TrainerRecord(teacher, loc, month, sessions, customers, paid, cycle, barre) ==
  [teacherId |-> teacher, teacherName |-> teacher, teacherEmail |-> "",
   location |-> loc, monthYear |-> month,
   totalSessions |-> sessions, totalEmptySessions |-> 0,
   totalNonEmptySessions |-> sessions, totalCustomers |-> customers,
   totalPaid |-> paid,
   cycleSessions |-> cycle[1], emptyCycleSessions |-> 0,
   nonEmptyCycleSessions |-> cycle[1], cycleCustomers |-> cycle[2],
   cyclePaid |-> cycle[3],
   barreSessions |-> barre[1], emptyBarreSessions |-> 0,
   nonEmptyBarreSessions |-> barre[1], barreCustomers |-> barre[2],
   barrePaid |-> barre[3],
   conversion |-> Undefined, retention |-> Undefined,
   converted |-> Undefined, retained |-> Undefined, unique |-> ""]

\* the values of activeLocation (the location tabs)
ActiveLocations == {"all", "kwality", "supreme", "kenkere"}

\* locationMatch
LocationMatch(item, active) ==
  CASE active = "kwality" -> item.location = "Kwality House, Kemps Corner"
    [] active = "supreme" -> item.location = "Supreme HQ, Bandra"
    [] OTHER -> IncludesKenkere(item.location) \/ item.location = "Kenkere House"

\* the date-range test on monthYear; the range of the model covers the
\* months of 2024, and a record without monthYear is dropped
InDateRange(monthYear) == monthYear \in {"Jan-2024", "Feb-2024"}

\* applyFilters
ApplyFilters(rawData, active) ==
  LET byLocation == IF active # "all"
                    THEN FilterIdx(rawData, {i \in 1..Len(rawData) :
                                               LocationMatch(rawData[i], active)})
                    ELSE rawData
  IN FilterIdx(byLocation, {i \in 1..Len(byLocation) :
                              InDateRange(byLocation[i].monthYear)})

\* the map callback of processTrainerData
ProcessTrainerRecord(record) ==
  LET totalSessions == OrZero(record.totalSessions)
      nonEmptySessions == OrZero(record.totalNonEmptySessions)
      totalCustomers == OrZero(record.totalCustomers)
  IN [trainerId |-> record.teacherId, trainerName |-> record.teacherName,
      trainerEmail |-> record.teacherEmail, location |-> record.location,
      monthYear |-> record.monthYear,
      totalSessions |-> totalSessions,
      emptySessions |-> OrZero(record.totalEmptySessions),
      nonEmptySessions |-> nonEmptySessions,
      totalCustomers |-> totalCustomers,
      totalPaid |-> OrZero(record.totalPaid),
      cycleSessions |-> OrZero(record.cycleSessions),
      emptyCycleSessions |-> OrZero(record.emptyCycleSessions),
      nonEmptyCycleSessions |-> OrZero(record.nonEmptyCycleSessions),
      cycleCustomers |-> OrZero(record.cycleCustomers),
      cycleRevenue |-> OrZero(record.cyclePaid),
      strengthSessions |-> 0, emptyStrengthSessions |-> 0,
      nonEmptyStrengthSessions |-> 0, strengthCustomers |-> 0,
      strengthRevenue |-> 0,
      barreSessions |-> OrZero(record.barreSessions),
      emptyBarreSessions |-> OrZero(record.emptyBarreSessions),
      nonEmptyBarreSessions |-> OrZero(record.nonEmptyBarreSessions),
      barreCustomers |-> OrZero(record.barreCustomers),
      barreRevenue |-> OrZero(record.barrePaid),
      classAverageExclEmpty |-> SafeDiv(totalCustomers, nonEmptySessions),
      classAverageInclEmpty |-> SafeDiv(totalCustomers, totalSessions),
      conversion |-> OrZero(record.converted),
      retention |-> OrZero(record.retained),
      uniqueKey |-> record.unique, newMembers |-> 0,
      convertedMembers |-> OrZero(record.converted),
      retainedMembers |-> OrZero(record.retained),
      conversionRate |-> OrZero(record.conversion),
      retentionRate |-> OrZero(record.retention)]

\* processTrainerData
ProcessTrainerData(payroll) ==
  [i \in 1..Len(payroll) |-> ProcessTrainerRecord(payroll[i])]

\* `trainer[field]`: a property the processed rows do not have is undefined
TrainerField(trainer, field) ==
  IF field \in DOMAIN trainer THEN trainer[field] ELSE Undefined

\* data.reduce((sum, trainer) => sum + trainer[field], 0)
RECURSIVE SumTrainerField(_, _)
SumTrainerField(d, field) ==
  IF d = <<>> THEN 0
  ELSE JsAdd(SumTrainerField(Front(d), field), TrainerField(Last(d), field))

\* the average of a field over the trainers (animated metric cards)
AvgTrainerField(d, field) ==
  IF Len(d) > 0 THEN Div(SumTrainerField(d, field), Len(d)) ELSE Zero

\* d.sort(compare): the array object d itself after the call
SortedInPlace(d, c) == JsSort(d, c)

\* the array `data` after the interactive charts computed topTrainersData
AfterTopTrainersData(d) ==
  SortedInPlace(d, [i \in 1..Len(d), j \in 1..Len(d) |->
                      NumCmp(d[j].totalPaid, d[i].totalPaid)])

\* the child views of the section that compute from `data`
TrainerViews == {"interactiveCharts", "topBottomLists", "monthOnMonth", "yearOnYear"}

(***************************************************************************)
(* The session trend tables: MultiMetricMonthlyTrendsTable and             *)
(* MonthOnMonthTrendsTable.  Both read `date` of every session and bucket  *)
(* the sessions by dimension and by month.                                 *)
(***************************************************************************)
\* a session with its date; counts is <<checkedInCount, capacity, totalPaid>>
TrendSession(date, time, trainer, counts) ==
  [uniqueId |-> "b", uniqueId1 |-> "b",
   cleanedClass |-> "Barre", classType |-> "Cycle",
   trainerName |-> trainer, date |-> date,
   time |-> time, dayOfWeek |-> "Mon", location |-> "Kwality House, Kemps Corner",
   checkedInCount |-> counts[1], capacity |-> counts[2],
   bookedCount |-> Undefined, lateCancelledCount |-> Undefined,
   totalPaid |-> counts[3], revenue |-> Undefined]

\* `${date.getFullYear()}-${String(date.getMonth() + 1).padStart(2, '0')}`
\* of new Date(session.date).  The dates of the model lie in the middle of
\* a month, so that the local month does not depend on the time zone; a
\* missing or unparseable date gives an Invalid Date, whose getters are NaN
MonthKey(date) ==
  CASE date = "2024-01-15" -> "2024-01"
    [] date = "2024-02-10" -> "2024-02"
    [] date = "2024-03-05" -> "2024-03"
    [] OTHER -> "NaN-NaN"

\* the month keys in the order of Array.prototype.sort() without comparator
\* (by UTF-16 code units)
CodeUnitOrder == <<"2024-01", "2024-02", "2024-03", "NaN-NaN">>

\* Array.from(new Set(data.map(monthKey))).sort()
AllMonths(d) ==
  LET present == {MonthKey(d[i].date) : i \in 1..Len(d)}
  IN FilterIdx(CodeUnitOrder, {i \in 1..Len(CodeUnitOrder) : CodeUnitOrder[i] \in present})

\* Object.keys(obj).sort()
SortedKeys(obj) ==
  FilterIdx(CodeUnitOrder, {i \in 1..Len(CodeUnitOrder) : ObjHas(obj, CodeUnitOrder[i])})

\* the values of the Analysis Dimension select
TrendViews == {"timeslot", "format", "trainer", "location", "dayOfWeek"}

\* switch (activeTrendView): dimensionKey and dimensionType (the same switch
\* in both tables)
DimensionKey(session, activeTrendView) ==
  CASE activeTrendView = "timeslot" ->
         [key |-> session.time \o " (" \o session.dayOfWeek \o ")", type |-> "timeslot"]
    [] activeTrendView = "format" ->
         [key |-> StrOr(session.cleanedClass, StrOr(session.classType, "Unknown")),
          type |-> "format"]
    [] activeTrendView = "trainer" ->
         [key |-> StrOr(session.trainerName, "Unknown"), type |-> "trainer"]
    [] activeTrendView = "location" ->
         [key |-> StrOr(session.location, "Unknown"), type |-> "location"]
    [] activeTrendView = "dayOfWeek" ->
         [key |-> StrOr(session.dayOfWeek, "Unknown"), type |-> "dayOfWeek"]
    [] OTHER -> [key |-> "Unknown", type |-> "timeslot"]

\* the three `+=` on a bucket, with the last session's revenue kept only
AddToBucketLastRevenue(bucket, session) ==
  [bucket EXCEPT !.sessions = @ + 1,
                 !.attendance = @ + OrZero(session.checkedInCount),
                 !.revenue = OrZero(session.totalPaid)]

\* sessions += 1; attendance += checkedInCount || 0; revenue += totalPaid || 0
AddToBucket(bucket, session) ==
  [bucket EXCEPT !.sessions = @ + 1,
                 !.attendance = @ + OrZero(session.checkedInCount),
                 !.revenue = @ + OrZero(session.totalPaid)]

\* `session.capacity ? ... : 0`: undefined, NaN and 0 are falsy
Truthy(x) == IsNumber(x) /\ x # 0

\* the forEach callback of processedTrendData
MultiMetricStep(trendMap, session, activeTrendView) ==
  LET monthKey == MonthKey(session.date)
      dim == DimensionKey(session, activeTrendView)
      created ==
        IF ObjHas(trendMap, dim.key) THEN trendMap
        ELSE ObjCreate(trendMap, dim.key,
               [key |-> dim.key, dimension |-> dim.key, type |-> dim.type,
                totalSessions |-> 0, totalAttendance |-> 0, totalRevenue |-> 0,
                monthlyBreakdown |-> <<>>])
      trend == ObjGet(created, dim.key)
      breakdown ==
        IF ObjHas(trend.monthlyBreakdown, monthKey) THEN trend.monthlyBreakdown
        ELSE ObjCreate(trend.monthlyBreakdown, monthKey,
               [key |-> monthKey, sessions |-> 0, attendance |-> 0,
                revenue |-> 0, fillRate |-> Zero])
      added == AddToBucket(ObjGet(breakdown, monthKey), session)
      monthData ==
        [added EXCEPT !.fillRate =
           IF Truthy(session.capacity)
           THEN Pct(added.attendance, added.sessions * session.capacity)
           ELSE Zero]
  IN ObjPut(created, dim.key,
       [trend EXCEPT !.totalSessions = @ + 1,
                     !.totalAttendance = @ + OrZero(session.checkedInCount),
                     !.totalRevenue = @ + OrZero(session.totalPaid),
                     !.monthlyBreakdown = ObjPut(breakdown, monthKey, monthData)])

RECURSIVE MultiMetricTrendMap(_, _)
MultiMetricTrendMap(d, activeTrendView) ==
  IF d = <<>> THEN <<>>
  ELSE MultiMetricStep(MultiMetricTrendMap(Front(d), activeTrendView), Last(d),
                       activeTrendView)

\* `previous.x > 0 ? ((latest.x - previous.x) / previous.x) * 100 : 0`
MomChange(latest, previous) ==
  IF previous > 0 THEN DeltaPct(latest, previous) ELSE Zero

\* the map callback of processedTrendData
MultiMetricRow(trend, allMonths) ==
  LET b == trend.monthlyBreakdown
      months == SortedKeys(b)
      active == Cardinality({i \in 1..Len(b) : b[i].sessions > 0})
      two == Len(months) >= 2
      latest == ObjGet(b, months[Len(months)])
      previous == ObjGet(b, months[Len(months) - 1])
  IN [key |-> trend.key, dimension |-> trend.dimension, type |-> trend.type,
      totalSessions |-> trend.totalSessions,
      totalAttendance |-> trend.totalAttendance,
      totalRevenue |-> trend.totalRevenue,
      monthlyBreakdown |-> b,
      avgFillRate |-> IF trend.totalSessions > 0
                      THEN Pct(trend.totalAttendance, trend.totalSessions * 15)
                      ELSE Zero,
      avgUtilization |-> Quot(100 * active, Len(allMonths)),
      momSessionsChange |->
        IF two THEN MomChange(latest.sessions, previous.sessions) ELSE Zero,
      momAttendanceChange |->
        IF two THEN MomChange(latest.attendance, previous.attendance) ELSE Zero,
      momRevenueChange |->
        IF two THEN MomChange(latest.revenue, previous.revenue) ELSE Zero]

\* the sort callback of processedTrendData
MultiMetricCompare(a, b, sortField, sortDirection) ==
  IF sortField = "dimension"
  THEN Directed(LocaleCompare(a.dimension, b.dimension), sortDirection)
  ELSE IF sortField \in {"avgFillRate", "avgUtilization"}
  THEN Directed(RatioCmp(a[sortField], b[sortField]), sortDirection)
  ELSE Directed(NumCmp(a[sortField], b[sortField]), sortDirection)

\* processedTrendData
ProcessedTrendData(d, st) ==
  IF Len(d) = 0 THEN <<>>
  ELSE LET m == MultiMetricTrendMap(d, st.activeTrendView)
           rows == [i \in 1..Len(m) |-> MultiMetricRow(m[i], AllMonths(d))]
       IN JsSort(rows, [i \in 1..Len(rows), j \in 1..Len(rows) |->
                          MultiMetricCompare(rows[i], rows[j], st.sortField,
                                             st.sortDirection)])

\* the bucket a month starts with in MonthOnMonthTrendsTable
ZeroBucket(month) ==
  [key |-> month, sessions |-> 0, attendance |-> 0, revenue |-> 0,
   fillRate |-> Zero, avgVisits |-> Zero]

\* the forEach callback of MonthOnMonthTrendsTable; the month buckets of a
\* trend are kept in `months`
MonthOnMonthStep(trendMap, session, activeTrendView, sortedMonths) ==
  LET monthKey == MonthKey(session.date)
      dim == DimensionKey(session, activeTrendView)
      created ==
        IF ObjHas(trendMap, dim.key) THEN trendMap
        ELSE ObjCreate(trendMap, dim.key,
               [key |-> dim.key, dimension |-> dim.key, type |-> dim.type,
                totalValues |-> [avgVisits |-> Zero, sessions |-> 0,
                                 attendance |-> 0, revenue |-> 0, fillRate |-> Zero],
                months |-> [i \in 1..Len(sortedMonths) |-> ZeroBucket(sortedMonths[i])]])
      trend == ObjGet(created, dim.key)
      months == IF ObjHas(trend.months, monthKey) THEN trend.months
                ELSE ObjCreate(trend.months, monthKey, ZeroBucket(monthKey))
  IN ObjPut(created, dim.key,
       [trend EXCEPT !.months = ObjPut(months, monthKey,
                                       AddToBucket(ObjGet(months, monthKey), session)),
                     !.totalValues = AddToBucket(@, session)])

RECURSIVE MonthOnMonthTrendMap(_, _, _)
MonthOnMonthTrendMap(d, activeTrendView, sortedMonths) ==
  IF d = <<>> THEN <<>>
  ELSE MonthOnMonthStep(MonthOnMonthTrendMap(Front(d), activeTrendView, sortedMonths),
                        Last(d), activeTrendView, sortedMonths)

\* avgVisits and fillRate of a bucket with sessions (15 is the assumed capacity)
BucketAverages(bucket) ==
  IF bucket.sessions > 0
  THEN [bucket EXCEPT !.avgVisits = Div(bucket.attendance, bucket.sessions),
                      !.fillRate = Pct(bucket.attendance, bucket.sessions * 15)]
  ELSE bucket

\* the map callback of MonthOnMonthTrendsTable
MonthOnMonthDerive(trend) ==
  [trend EXCEPT !.totalValues = BucketAverages(@),
                !.months = [i \in 1..Len(@) |-> BucketAverages(@[i])]]

\* processedData and allMonths of MonthOnMonthTrendsTable; the rows are
\* sorted by the path `totalValues.avgVisits`, which no handler changes
MonthOnMonthProcessed(d, st) ==
  IF Len(d) = 0 THEN [processedData |-> <<>>, allMonths |-> <<>>]
  ELSE LET sortedMonths == AllMonths(d)
           m == MonthOnMonthTrendMap(d, st.activeTrendView, sortedMonths)
           results == [i \in 1..Len(m) |-> MonthOnMonthDerive(m[i])]
           filtered == FilterIdx(results, {i \in 1..Len(results) :
                         results[i].totalValues.sessions >= st.minSessions})
       IN [processedData |->
             JsSort(filtered, [i \in 1..Len(filtered), j \in 1..Len(filtered) |->
               Directed(RatioCmp(filtered[i].totalValues.avgVisits,
                                 filtered[j].totalValues.avgVisits),
                        st.sortDirection)]),
           allMonths |-> sortedMonths]

(***************************************************************************)
(* PowerCycleBarreStrengthYearOnYearTable and                              *)
(* PowerCycleBarreStrengthMonthOnMonthTable.  Their `data` prop is an      *)
(* array of ProcessedTrainerData, one element per payroll record.          *)
(***************************************************************************)
\* `trainer.monthYear?.split('-')[1] || '2024'`
YearOf(monthYear) ==
  CASE monthYear \in {"Dec-2022"} -> "2022"
    [] monthYear \in {"Jan-2023"} -> "2023"
    [] monthYear \in {"Jan-2024", "Feb-2024"} -> "2024"
    [] OTHER -> "2024"

\* the year keys in the order of Array.prototype.sort() without comparator
YearOrder == <<"2022", "2023", "2024">>

\* `${trainer.trainerName}-${trainer.location}`
TrainerKey(trainer) == trainer.trainerName \o "-" \o trainer.location

\* the forEach callback of yearOnYearData: trainerMap is a Map, and `years`
\* maps a year to the array of its records
YearGroupStep(trainerMap, trainer) ==
  LET key == TrainerKey(trainer)
      year == YearOf(trainer.monthYear)
      created == IF ObjHas(trainerMap, key) THEN trainerMap
                 ELSE MapCreate(trainerMap,
                        [key |-> key, trainerName |-> trainer.trainerName,
                         location |-> trainer.location, years |-> <<>>])
      trainerData == ObjGet(created, key)
      years == IF ObjHas(trainerData.years, year) THEN trainerData.years
               ELSE MapCreate(trainerData.years, [key |-> year, records |-> <<>>])
      entry == ObjGet(years, year)
  IN ObjPut(created, key,
       [trainerData EXCEPT !.years =
          ObjPut(years, year, [entry EXCEPT !.records = Append(@, trainer)])])

RECURSIVE YearGrouped(_)
YearGrouped(d) ==
  IF d = <<>> THEN <<>> ELSE YearGroupStep(YearGrouped(Front(d)), Last(d))

\* currentData.reduce(...) and previousData.reduce(...)
RECURSIVE YearTotals(_)
YearTotals(records) ==
  IF records = <<>>
  THEN [revenue |-> 0, sessions |-> 0, customers |-> 0, cycleRevenue |-> 0,
        barreRevenue |-> 0, strengthRevenue |-> 0]
  ELSE LET acc == YearTotals(Front(records))
           t == Last(records)
       IN [revenue |-> acc.revenue + t.totalPaid,
           sessions |-> acc.sessions + t.totalSessions,
           customers |-> acc.customers + t.totalCustomers,
           cycleRevenue |-> acc.cycleRevenue + t.cycleRevenue,
           barreRevenue |-> acc.barreRevenue + t.barreRevenue,
           strengthRevenue |-> acc.strengthRevenue + t.strengthRevenue]

\* the growth without the guard on the previous total
GrowthUnguarded(current, previous) == DeltaPct(current, previous)

\* `previous.x > 0 ? ((current.x - previous.x) / previous.x) * 100 : 0`
Growth(current, previous) ==
  IF previous > 0 THEN DeltaPct(current, previous) ELSE Zero

\* Object.entries(currentFormats).sort(([,a], [,b]) => b - a)[0][0]
TopFormat(current) ==
  IF current.cycleRevenue >= current.barreRevenue
       /\ current.cycleRevenue >= current.strengthRevenue THEN "PowerCycle"
  ELSE IF current.barreRevenue >= current.strengthRevenue THEN "Barre"
  ELSE "Strength Lab"

\* Object.keys(trainer.years).sort()
SortedYears(years) ==
  FilterIdx(YearOrder, {i \in 1..Len(YearOrder) : ObjHas(years, YearOrder[i])})

\* the comparison pushed for a trainer with two years or more
YearComparison(trainer) ==
  LET years == SortedYears(trainer.years)
      current == YearTotals(ObjGet(trainer.years, years[Len(years)]).records)
      previous == YearTotals(ObjGet(trainer.years, years[Len(years) - 1]).records)
  IN [trainerName |-> trainer.trainerName, location |-> trainer.location,
      currentYear |-> current, previousYear |-> previous,
      revenueGrowth |-> Growth(current.revenue, previous.revenue),
      sessionGrowth |-> Growth(current.sessions, previous.sessions),
      customerGrowth |-> Growth(current.customers, previous.customers),
      topFormat |-> TopFormat(current),
      formatGrowth |->
        [PowerCycle |-> Growth(current.cycleRevenue, previous.cycleRevenue),
         Barre |-> Growth(current.barreRevenue, previous.barreRevenue),
         StrengthLab |-> Growth(current.strengthRevenue, previous.strengthRevenue)]]

\* yearOnYearData
YearOnYearData(d) ==
  LET trainerMap == YearGrouped(d)
      compared == FilterIdx(trainerMap, {i \in 1..Len(trainerMap) :
                    Len(SortedYears(trainerMap[i].years)) >= 2})
  IN [i \in 1..Len(compared) |-> YearComparison(compared[i])]

\* the month keys in the order of Array.prototype.sort() without comparator
PcbMonthOrder == <<"Dec-2022", "Feb-2024", "Jan-2023", "Jan-2024", "Unknown">>

\* the forEach callback of monthlyData: months[month] is assigned, the two
\* totals are added to
MonthGroupStep(trainerMap, trainer) ==
  LET key == TrainerKey(trainer)
      month == StrOr(trainer.monthYear, "Unknown")
      created == IF ObjHas(trainerMap, key) THEN trainerMap
                 ELSE MapCreate(trainerMap,
                        [key |-> key, trainerName |-> trainer.trainerName,
                         location |-> trainer.location, months |-> <<>>,
                         totalSessions |-> 0, totalRevenue |-> 0,
                         avgMonthlyRevenue |-> Zero, growth |-> Zero])
      trainerData == ObjGet(created, key)
      bucket == [key |-> month, sessions |-> trainer.totalSessions,
                 revenue |-> trainer.totalPaid, customers |-> trainer.totalCustomers,
                 cycleRevenue |-> trainer.cycleRevenue,
                 barreRevenue |-> trainer.barreRevenue,
                 strengthRevenue |-> trainer.strengthRevenue,
                 cycleSessions |-> trainer.cycleSessions,
                 barreSessions |-> trainer.barreSessions,
                 strengthSessions |-> trainer.strengthSessions]
  IN ObjPut(created, key,
       [trainerData EXCEPT
          !.months = IF ObjHas(@, month) THEN ObjPut(@, month, bucket)
                     ELSE ObjCreate(@, month, bucket),
          !.totalSessions = @ + trainer.totalSessions,
          !.totalRevenue = @ + trainer.totalPaid])

RECURSIVE MonthGrouped(_)
MonthGrouped(d) ==
  IF d = <<>> THEN <<>> ELSE MonthGroupStep(MonthGrouped(Front(d)), Last(d))

\* trainerMap.forEach: the average and the growth from the first to the
\* last month of months.sort()
MonthAverages(trainer) ==
  LET n == Len(trainer.months)
      sortedMonths == FilterIdx(PcbMonthOrder, {i \in 1..Len(PcbMonthOrder) :
                        ObjHas(trainer.months, PcbMonthOrder[i])})
      firstMonth == ObjGet(trainer.months, sortedMonths[1])
      lastMonth == ObjGet(trainer.months, sortedMonths[n])
  IN [trainer EXCEPT
        !.avgMonthlyRevenue = IF n > 0 THEN Div(trainer.totalRevenue, n) ELSE Zero,
        !.growth = IF n > 1 /\ firstMonth.revenue > 0
                   THEN DeltaPct(lastMonth.revenue, firstMonth.revenue) ELSE Zero]

\* monthlyData
MonthlyData(d) ==
  LET trainerMap == MonthGrouped(d)
      all == [i \in 1..Len(trainerMap) |-> MonthAverages(trainerMap[i])]
      kept == FilterIdx(all, {i \in 1..Len(all) : all[i].totalRevenue > 0})
  IN JsSort(kept, [i \in 1..Len(kept), j \in 1..Len(kept) |->
                     NumCmp(kept[j].totalRevenue, kept[i].totalRevenue)])

\* monthsSet.add(month): a Set keeps its values in insertion order
SetAdd(set, value) ==
  IF \E i \in 1..Len(set) : set[i] = value THEN set ELSE Append(set, value)

RECURSIVE SetAddAll(_, _)
SetAddAll(set, values) ==
  IF values = <<>> THEN set ELSE SetAdd(SetAddAll(set, Front(values)), Last(values))

\* Object.keys(trainer.months)
MonthKeys(trainer) == [i \in 1..Len(trainer.months) |-> trainer.months[i].key]

\* monthsSet after monthlyData.forEach
RECURSIVE MonthsSet(_)
MonthsSet(rows) ==
  IF rows = <<>> THEN <<>> ELSE SetAddAll(MonthsSet(Front(rows)), MonthKeys(Last(rows)))

\* parseInt of the part after the '-' of a month label; NaN when there is none
LabelYear(label) ==
  CASE label = "Dec-2022" -> 2022
    [] label \in {"Jan-2023"} -> 2023
    [] label \in {"Jan-2024", "Feb-2024"} -> 2024
    [] OTHER -> NaN

\* monthOrder.indexOf of the part before the '-'; 0 is 'Jan', and a label
\* that is no month name is not found
LabelMonthIndex(label) ==
  CASE label \in {"Jan-2023", "Jan-2024"} -> 0
    [] label = "Feb-2024" -> 1
    [] label = "Dec-2022" -> 11
    [] OTHER -> 0 - 1

\* the comparator of allMonths: the years when they differ as strings (the
\* difference is NaN when one label has no year), else the month indices
MonthLabelCompare(a, b) ==
  IF LabelYear(a) # LabelYear(b) THEN NumCmp(LabelYear(a), LabelYear(b))
  ELSE IF LabelMonthIndex(a) < LabelMonthIndex(b) THEN 0 - 1
  ELSE IF LabelMonthIndex(a) > LabelMonthIndex(b) THEN 1 ELSE 0

\* allMonths of the month-on-month table: the month columns
PcbAllMonths(rows) ==
  LET months == MonthsSet(rows)
  IN JsSort(months, [i \in 1..Len(months), j \in 1..Len(months) |->
                       MonthLabelCompare(months[i], months[j])])

(***************************************************************************)
(* ClientConversionMonthOnMonthTable: the clients are bucketed by the      *)
(* month of firstVisitDate.                                                *)
(***************************************************************************)
\* a client record; without the field firstVisitDate when hasDate is FALSE
VisitClient(hasDate, firstVisitDate, ltv) ==
  LET rest == [isNew |-> "New", conversionStatus |-> "Converted",
               retentionStatus |-> "Retained", ltv |-> ltv,
               firstPurchase |-> "", visitsPostTrial |-> Undefined]
  IN IF hasDate THEN [firstVisitDate |-> firstVisitDate] @@ rest ELSE rest

\* monthKey of the parsed firstVisitDate, "" for an Invalid Date: a date
\* with slashes is read as DD/MM/YYYY, any other string by new Date(dateStr)
VisitMonthKey(dateStr) ==
  CASE dateStr = "15/01/2024" -> "2024-01"
    [] dateStr = "2024-02-10" -> "2024-02"
    [] OTHER -> ""

\* date.toLocaleDateString('en-US', { month: 'short', year: 'numeric' })
MonthName(monthKey) ==
  CASE monthKey = "2024-01" -> "Jan 2024"
    [] monthKey = "2024-02" -> "Feb 2024"
    [] OTHER -> "Invalid Date"

\* `(s || '').toLowerCase().includes(word)`
IncludesWord(s, word) ==
  <<s, word>> \in {<<"New", "new">>, <<"new", "new">>, <<"New - Other", "new">>,
                   <<"Converted", "converted">>, <<"Not Converted", "converted">>,
                   <<"Retained", "retained">>, <<"Not Retained", "retained">>}

\* the reduce callback of monthlyData.  acc.thrown tells that an earlier
\* call threw: `dateStr.includes('/')` is a TypeError when the record has
\* no firstVisitDate
VisitMonthStep(acc, client) ==
  IF acc.thrown \/ "firstVisitDate" \notin DOMAIN client
  THEN [thrown |-> TRUE, stats |-> acc.stats]
  ELSE LET monthKey == VisitMonthKey(client.firstVisitDate)
           stats1 == IF ObjHas(acc.stats, monthKey) THEN acc.stats
                     ELSE ObjCreate(acc.stats, monthKey,
                            [key |-> monthKey, month |-> MonthName(monthKey),
                             sortKey |-> monthKey, totalMembers |-> 0,
                             newMembers |-> 0, converted |-> 0, retained |-> 0,
                             totalLTV |-> 0])
           stat == ObjGet(stats1, monthKey)
       IN IF monthKey = "" THEN acc
          ELSE [thrown |-> FALSE,
                stats |-> ObjPut(stats1, monthKey,
                  [stat EXCEPT
                     !.totalMembers = @ + 1,
                     !.newMembers = IF IncludesWord(client.isNew, "new")
                                    THEN @ + 1 ELSE @,
                     !.converted = IF IncludesWord(client.conversionStatus, "converted")
                                   THEN @ + 1 ELSE @,
                     !.retained = IF IncludesWord(client.retentionStatus, "retained")
                                  THEN @ + 1 ELSE @,
                     !.totalLTV = @ + OrZero(client.ltv)])]

RECURSIVE VisitMonthlyStats(_)
VisitMonthlyStats(d) ==
  IF d = <<>> THEN [thrown |-> FALSE, stats |-> <<>>]
  ELSE VisitMonthStep(VisitMonthlyStats(Front(d)), Last(d))

\* monthlyData of the client-conversion table: the rows in descending order
\* of sortKey, or the exception of the reduce.  The clients of the model
\* have no firstPurchase and no visitsPostTrial
VisitMonthlyData(d) ==
  LET acc == VisitMonthlyStats(d)
      rows == [i \in 1..Len(acc.stats) |->
                 [month |-> acc.stats[i].month, sortKey |-> acc.stats[i].sortKey,
                  totalMembers |-> acc.stats[i].totalMembers,
                  newMembers |-> acc.stats[i].newMembers,
                  converted |-> acc.stats[i].converted,
                  retained |-> acc.stats[i].retained,
                  totalLTV |-> acc.stats[i].totalLTV,
                  trialsCompleted |-> acc.stats[i].newMembers,
                  conversionRate |-> SafePct(acc.stats[i].converted,
                                             acc.stats[i].newMembers),
                  retentionRate |-> SafePct(acc.stats[i].retained,
                                            acc.stats[i].totalMembers),
                  avgLTV |-> SafeDiv(acc.stats[i].totalLTV, acc.stats[i].totalMembers),
                  avgConversionInterval |-> Zero, avgVisitsPostTrial |-> Zero]]
  IN [thrown |-> acc.thrown,
      rows |-> IF acc.thrown THEN <<>>
               ELSE JsSort(rows, [i \in 1..Len(rows), j \in 1..Len(rows) |->
                                    LocaleCompare(rows[j].sortKey, rows[i].sortKey)])]

\* a reduce of monthlyData that adds up one column
RECURSIVE SumColumn(_, _)
SumColumn(rows, column) ==
  IF rows = <<>> THEN 0 ELSE SumColumn(Front(rows), column) + Last(rows)[column]

\* totals of the client-conversion table: the counts of the TOTAL row
VisitTotals(monthlyData) ==
  [totalMembers |-> SumColumn(monthlyData, "totalMembers"),
   newMembers |-> SumColumn(monthlyData, "newMembers"),
   converted |-> SumColumn(monthlyData, "converted"),
   retained |-> SumColumn(monthlyData, "retained")]

(***************************************************************************)
(* ClientConversionMetricCards.                                            *)
(***************************************************************************)
\* the counts of the metric cards: data.filter(...).length
MetricCardCounts(d) ==
  [totalClients |-> Len(d),
   newMembers |-> Cardinality({i \in 1..Len(d) : IncludesNew(d[i].isNew)}),
   convertedMembers |->
     Cardinality({i \in 1..Len(d) : d[i].conversionStatus = "Converted"}),
   retainedMembers |->
     Cardinality({i \in 1..Len(d) : d[i].retentionStatus = "Retained"})]

(***************************************************************************)
(* Header sorting.  Every table keeps a sort column and a direction; the   *)
(* click handlers of the tables are the same function of the two cells and *)
(* the clicked column, except the onSort callback of the multi-metric      *)
(* trends table.                                                           *)
(***************************************************************************)
\* mutant of HandleSort: a click always selects 'desc'
HandleSortAlwaysDesc(sortBy, sortDirection, column) ==
  [sortBy |-> column, sortDirection |-> "desc"]

\* handleSort: the values of the two cells after the click
HandleSort(sortBy, sortDirection, column) ==
  IF sortBy = column
  THEN [sortBy |-> sortBy,
        sortDirection |-> IF sortDirection = "asc" THEN "desc" ELSE "asc"]
  ELSE [sortBy |-> column, sortDirection |-> "desc"]

\* the onSort callback of MultiMetricMonthlyTrendsTable
OnSort(sortField, sortDirection, field) ==
  [sortBy |-> field,
   sortDirection |-> IF sortField = field /\ sortDirection = "desc"
                     THEN "asc" ELSE "desc"]

\* the columns whose header calls the handler
ClassColumns ==
  {"classType", "totalSessions", "totalCapacity", "totalCheckedIn", "fillRate",
   "showUpRate", "avgRevenue", "totalRevenue", "utilizationRate"}

UidColumns ==
  {"className", "trainerName", "dayOfWeek", "time", "location", "sessionCount",
   "avgCheckIns", "fillPercentage", "totalCheckIns", "totalLateCancellations",
   "totalRevenue"}

\* the sortable columns of the enhanced table in its 'detailed' view
EnhColumns ==
  {"className", "totalSessions", "emptySessions", "totalCheckedIn",
   "totalLateCancelled", "totalBooked", "totalCapacity", "classAvgWithEmpty",
   "classAvgWithoutEmpty", "fillRate", "cancellationRate", "totalRevenue",
   "revenuePerSession"}

MultiMetricColumns ==
  {"dimension", "totalSessions", "totalAttendance", "totalRevenue",
   "avgFillRate", "avgUtilization"}

\* the headers of the improved payroll table; the fourth header sorts by the
\* metric of the open tab (selectedMetric, 'classAvgWithoutEmpty' at mount)
ImprovedColumns == {"location", "teacherName", "monthYear", "classAvgWithoutEmpty"}

(***************************************************************************)
(* State.                                                                  *)
(***************************************************************************)
\* the tuples of the variables declared at the head of the module

vars == <<mounted, timeZone, ranks, data, classRanking, enhanced, uidRanking, multiMetric,
          trends, payrollData, location, improved, matrix, clientData,
          activeLocation, processedData, rendered, clicked>>

sessionVars == <<data, classRanking, enhanced, uidRanking, multiMetric, trends>>
payrollVars == <<payrollData, location, improved, matrix>>
trainerVars == <<activeLocation, processedData, rendered>>

SessionTables == {"classRanking", "enhanced", "uidRanking"}
PayrollTables == {"improvedPayroll", "payrollMatrix"}

\* the state after the first render of the session tables
InitSessionTables ==
  /\ data = <<>>
  /\ classRanking = [sortBy |-> "totalSessions", sortDirection |-> "desc",
                     minSessions |-> 2]
  /\ enhanced = [rankingCriteria |-> "totalSessions", viewOption |-> "detailed",
                 groupingOption |-> "uniqueId1",
                 minSessions |-> 2, sortField |-> "totalSessions",
                 sortDirection |-> "desc"]
  /\ uidRanking = [currentPage |-> 1, sortField |-> "avgCheckIns",
                   sortDirection |-> "desc"]
  /\ multiMetric = [activeTrendView |-> "timeslot", sortField |-> "totalSessions",
                    sortDirection |-> "desc"]
  /\ trends = [activeTrendView |-> "timeslot", minSessions |-> 5,
               sortField |-> "totalValues.avgVisits", sortDirection |-> "desc"]

\* the state after the first render of the payroll tables
InitPayrollTables ==
  /\ payrollData = <<>>
  /\ location \in (IF mounted \in PayrollTables THEN LocationProps ELSE {"all"})
  /\ improved = [sortBy |-> "monthYear", sortDirection |-> "desc"]
  /\ matrix = [sortBy |-> "location", sortDirection |-> "asc"]

\* the state after the first render of the other views
InitViews ==
  /\ clientData = <<>>
  /\ ranks = [activeRankingType |-> "trainers_conversion", activeViewType |-> "top"]
  /\ activeLocation = "all"
  /\ processedData = <<>>
  /\ rendered = {}
  /\ clicked = {}

\* the time zones of the model: local time ahead of UTC and behind UTC
TimeZones == {"Asia/Kolkata", "America/New_York"}

InitTables == InitSessionTables /\ InitPayrollTables /\ InitViews

InitAll == InitTables /\ timeZone = "Asia/Kolkata"

(***************************************************************************)
(* Actions on the session tables.                                          *)
(***************************************************************************)
\* the parent passes a `data` array with one more session
AddSession(pool, max) ==
  /\ mounted \in SessionTables
  /\ Len(data) < max
  /\ \E s \in pool : data' = Append(data, s)
  /\ UNCHANGED <<mounted, timeZone, ranks, classRanking, enhanced, uidRanking, multiMetric, trends>>
  /\ UNCHANGED <<payrollVars, clientData, trainerVars, clicked>>

LoadKeySession == AddSession(KeySessions, MaxSessions)

\* the Min Sessions select of the class-type table (rendered with data only)
ClassSetMinSessions ==
  /\ mounted = "classRanking"
  /\ Len(data) > 0
  /\ \E n \in MinSessionsOptions :
       classRanking' = [classRanking EXCEPT !.minSessions = n]
  /\ UNCHANGED <<mounted, timeZone, ranks, data, enhanced, uidRanking, multiMetric, trends>>
  /\ UNCHANGED <<payrollVars, clientData, trainerVars, clicked>>

\* the Grouping select of the enhanced table
SetGroupingOption ==
  /\ mounted = "enhanced"
  /\ \E g \in GroupingOptions : enhanced' = [enhanced EXCEPT !.groupingOption = g]
  /\ UNCHANGED <<mounted, timeZone, ranks, data, classRanking, uidRanking, multiMetric, trends>>
  /\ UNCHANGED <<payrollVars, clientData, trainerVars, clicked>>

\* the Min Sessions select of the enhanced table
SetMinSessions ==
  /\ mounted = "enhanced"
  /\ \E n \in MinSessionsOptions : enhanced' = [enhanced EXCEPT !.minSessions = n]
  /\ UNCHANGED <<mounted, timeZone, ranks, data, classRanking, uidRanking, multiMetric, trends>>
  /\ UNCHANGED <<payrollVars, clientData, trainerVars, clicked>>

(***************************************************************************)
(* Spec: the three class ranking tables over sessions that differ in their *)
(* grouping keys.                                                          *)
(***************************************************************************)
Init ==
  /\ mounted \in SessionTables
  /\ InitAll

Next ==
  \/ LoadKeySession
  \/ ClassSetMinSessions
  \/ SetGroupingOption
  \/ SetMinSessions

Spec == Init /\ [][Next]_vars

(***************************************************************************)
(* SpecMetrics: the tables over records that differ in their numeric       *)
(* fields (absent, zero and positive counts).                              *)
(***************************************************************************)
LoadMetricSession == AddSession(MetricSessions, MaxMetricSessions)

\* payroll records of one teacher that differ in their counts
MetricPayroll ==
  {PayrollRecord("Kwality House, Kemps Corner", "Ann", m, t[1], t[2], t[3], 0, t[1]) :
     m \in {"2024-01", "2024-02"},
     t \in {<<Undefined, Undefined, Undefined>>, <<0, 0, 0>>, <<2, 3, 7>>, <<1, 4, 7>>}}

\* clients of one trainer
MetricClients ==
  {Client("Ann", n, c, "Retained", l) :
     n \in {"New", "Repeat"}, c \in {"Converted", "Not Converted"},
     l \in {Undefined, 0, 9}}

\* the parent passes a payroll array with one more record
AddPayroll(pool, max) ==
  /\ mounted \in PayrollTables
  /\ Len(payrollData) < max
  /\ \E r \in pool : payrollData' = Append(payrollData, r)
  /\ UNCHANGED <<mounted, timeZone, ranks, sessionVars, location, improved, matrix>>
  /\ UNCHANGED <<clientData, trainerVars, clicked>>

LoadMetricPayroll == AddPayroll(MetricPayroll, MaxMetricSessions)

\* the parent passes a client array with one more client
AddClient(pool, max) ==
  /\ mounted = "conversionRanks"
  /\ Len(clientData) < max
  /\ \E c \in pool : clientData' = Append(clientData, c)
  /\ UNCHANGED <<mounted, timeZone, ranks, sessionVars, payrollVars, trainerVars, clicked>>

LoadMetricClient == AddClient(MetricClients, MaxMetricSessions)

InitMetrics ==
  /\ mounted \in SessionTables \cup PayrollTables \cup {"conversionRanks"}
  /\ InitAll

NextMetrics ==
  \/ LoadMetricSession
  \/ ClassSetMinSessions
  \/ SetMinSessions
  \/ LoadMetricPayroll
  \/ LoadMetricClient

SpecMetrics == InitMetrics /\ [][NextMetrics]_vars

(***************************************************************************)
(* PowerCycleBarreStrengthComparison: the totals of the three formats over *)
(* the payroll records, and the winner of every metric.                    *)
(***************************************************************************)
\* a payroll record with the fields of the three formats; each format is
\* <<sessions, customers, paid, emptySessions>>
ComparisonRecord(teacher, cycle, barre, strength) ==
  [cycleSessions |-> cycle[1], cycleCustomers |-> cycle[2], cyclePaid |-> cycle[3],
   emptyCycleSessions |-> cycle[4], nonEmptyCycleSessions |-> cycle[1],
   barreSessions |-> barre[1], barreCustomers |-> barre[2], barrePaid |-> barre[3],
   emptyBarreSessions |-> barre[4], nonEmptyBarreSessions |-> barre[1],
   strengthSessions |-> strength[1], strengthCustomers |-> strength[2],
   strengthPaid |-> strength[3], emptyStrengthSessions |-> strength[4],
   nonEmptyStrengthSessions |-> strength[1]]
    @@ TrainerRecord(teacher, "Kwality House, Kemps Corner", "Jan-2024",
                     OrZero(cycle[1]) + OrZero(barre[1]) + OrZero(strength[1]),
                     OrZero(cycle[2]) + OrZero(barre[2]) + OrZero(strength[2]),
                     OrZero(cycle[3]) + OrZero(barre[3]) + OrZero(strength[3]),
                     <<0, 0, 0>>, <<0, 0, 0>>)

\* data.reduce((sum, item) => sum + (item[field] || 0), 0)
RECURSIVE SumOrZero(_, _)
SumOrZero(d, field) ==
  IF d = <<>> THEN 0 ELSE SumOrZero(Front(d), field) + OrZero(Last(d)[field])

\* the totals of one format
FormatTotals(d, sessions, customers, paid, emptySessions, nonEmptySessions) ==
  LET s == SumOrZero(d, sessions)
      c == SumOrZero(d, customers)
  IN [sessions |-> s, customers |-> c, revenue |-> SumOrZero(d, paid),
      emptySessions |-> SumOrZero(d, emptySessions),
      nonEmptySessions |-> SumOrZero(d, nonEmptySessions),
      avgCustomersPerSession |-> SafeDiv(c, s)]

\* comparisonData
ComparisonData(d) ==
  [powerCycle |-> FormatTotals(d, "cycleSessions", "cycleCustomers", "cyclePaid",
                               "emptyCycleSessions", "nonEmptyCycleSessions"),
   barre |-> FormatTotals(d, "barreSessions", "barreCustomers", "barrePaid",
                          "emptyBarreSessions", "nonEmptyBarreSessions"),
   strength |-> FormatTotals(d, "strengthSessions", "strengthCustomers",
                             "strengthPaid", "emptyStrengthSessions",
                             "nonEmptyStrengthSessions")]

\* getWinner on three finite values; the flag lowerIsBetter is not read
GetWinner(pcValue, barreValue, strengthValue, lowerIsBetter) ==
  IF RatioCmp(pcValue, barreValue) >= 0 /\ RatioCmp(pcValue, strengthValue) >= 0
  THEN "powercycle"
  ELSE IF RatioCmp(barreValue, strengthValue) >= 0 THEN "barre" ELSE "strength"

\* a whole number as a ratio
Whole(x) == [n |-> x, d |-> 1]

\* comparisonMetrics
ComparisonMetrics(cd) ==
  LET Metric(name, pick(_), lower) ==
        [metric |-> name, powerCycle |-> pick(cd.powerCycle), barre |-> pick(cd.barre),
         strength |-> pick(cd.strength), lowerIsBetter |-> lower]
      Sessions(f) == Whole(f.sessions)
      Customers(f) == Whole(f.customers)
      Revenue(f) == Whole(f.revenue)
      Average(f) == f.avgCustomersPerSession
      Empty(f) == Whole(f.emptySessions)
      PerCustomer(f) == SafeDiv(f.revenue, f.customers)
  IN <<Metric("Total Sessions", Sessions, FALSE),
       Metric("Total Customers", Customers, FALSE),
       Metric("Total Revenue", Revenue, FALSE),
       Metric("Avg Customers/Session", Average, FALSE),
       Metric("Empty Sessions", Empty, TRUE),
       Metric("Revenue per Customer", PerCustomer, FALSE)>>

\* the winner computed in the render of every metric card
ComparisonWinners(d) ==
  LET items == ComparisonMetrics(ComparisonData(d))
  IN [i \in 1..Len(items) |->
        items[i] @@ [winner |-> GetWinner(items[i].powerCycle, items[i].barre,
                                          items[i].strength, items[i].lowerIsBetter)]]

(***************************************************************************)
(* SpecPayroll: the two payroll tables over records of several locations,  *)
(* teachers and months.                                                    *)
(***************************************************************************)
\* payroll records that share or differ in location, teacher and month
PayrollPool ==
  {PayrollRecord(k[1], k[2], k[3], t[1], t[2], t[3], 0, t[1]) :
     k \in {<<"Kwality House, Kemps Corner", "Ann", "2024-01">>,
            <<"Kenkere House, Bengaluru", "Ann", "2024-01">>,
            <<"Kenkere House, Bengaluru", "Ann", "2024-02">>,
            <<"Kenkere House, Bengaluru", "Bob", "2024-01">>,
            <<"Kenkere House, Bengaluru", "Bob", "2024-02">>},
     t \in {<<2, 3, 7>>, <<Undefined, 1, Undefined>>}}

LoadPayroll == AddPayroll(PayrollPool, MaxPayroll)

InitPayroll ==
  /\ mounted \in PayrollTables
  /\ InitAll

NextPayroll == LoadPayroll

SpecPayroll == InitPayroll /\ [][NextPayroll]_vars

(***************************************************************************)
(* SpecClicks: header clicks on every table that offers header sorting.    *)
(* The class-type, uniqueId and payroll tables render their headers only   *)
(* when `data` is not empty.                                               *)
(***************************************************************************)
ClickSessions == {Session("b", "Barre", "Cycle", "09:00", 1, 2, 1, 0, 5)}

ClickPayroll ==
  {PayrollRecord("Kwality House, Kemps Corner", "Ann", "2024-01", 2, 3, 7, 0, 2)}

LoadClickSession == AddSession(ClickSessions, MaxClickRecords)

LoadClickPayroll == AddPayroll(ClickPayroll, MaxClickRecords)

\* a header of the class-type table is clicked
ClassHandleSort ==
  /\ mounted = "classRanking"
  /\ Len(data) > 0
  /\ \E column \in ClassColumns :
       LET s == HandleSort(classRanking.sortBy, classRanking.sortDirection, column)
       IN /\ classRanking' = [classRanking EXCEPT !.sortBy = s.sortBy,
                                                  !.sortDirection = s.sortDirection]
          /\ clicked' = clicked \cup {column}
  /\ UNCHANGED <<mounted, timeZone, ranks, data, enhanced, uidRanking, multiMetric, trends>>
  /\ UNCHANGED <<payrollVars, clientData, trainerVars>>

\* handleSort(field) of the uniqueId table: the page is reset as well
UidClick(field) ==
  /\ mounted = "uidRanking"
  /\ Len(data) > 0
  /\ LET s == HandleSort(uidRanking.sortField, uidRanking.sortDirection, field)
     IN uidRanking' = [currentPage |-> 1, sortField |-> s.sortBy,
                       sortDirection |-> s.sortDirection]
  /\ UNCHANGED <<mounted, timeZone, ranks, data, classRanking, enhanced, multiMetric, trends>>
  /\ UNCHANGED <<payrollVars, clientData, trainerVars>>

\* a header of the uniqueId table is clicked
UidHandleSort ==
  \E field \in UidColumns : UidClick(field) /\ clicked' = clicked \cup {field}

\* handleSort of the enhanced table: a new sort field becomes the ranking
\* criterion as well
EnhClick(field) ==
  /\ mounted = "enhanced"
  /\ LET s == HandleSort(enhanced.sortField, enhanced.sortDirection, field)
     IN enhanced' = [enhanced EXCEPT
                       !.sortField = s.sortBy,
                       !.rankingCriteria = IF enhanced.sortField = field
                                           THEN @ ELSE field,
                       !.sortDirection = s.sortDirection]
  /\ UNCHANGED <<mounted, timeZone, ranks, data, classRanking, uidRanking, multiMetric, trends>>
  /\ UNCHANGED <<payrollVars, clientData, trainerVars>>

\* a header of the enhanced table is clicked
EnhHandleSort ==
  \E field \in EnhColumns : EnhClick(field) /\ clicked' = clicked \cup {field}

\* a header of the multi-metric trends table is clicked
MultiMetricOnSort ==
  /\ mounted = "multiMetric"
  /\ \E field \in MultiMetricColumns :
       LET s == OnSort(multiMetric.sortField, multiMetric.sortDirection, field)
       IN /\ multiMetric' = [multiMetric EXCEPT !.sortField = s.sortBy,
                                               !.sortDirection = s.sortDirection]
          /\ clicked' = clicked \cup {field}
  /\ UNCHANGED <<mounted, timeZone, ranks, data, classRanking, enhanced, uidRanking, trends>>
  /\ UNCHANGED <<payrollVars, clientData, trainerVars>>

\* handleSort(column) of the improved payroll table
ImprovedClick(column) ==
  /\ mounted = "improvedPayroll"
  /\ Len(payrollData) > 0
  /\ LET s == HandleSort(improved.sortBy, improved.sortDirection, column)
     IN improved' = [sortBy |-> s.sortBy, sortDirection |-> s.sortDirection]
  /\ UNCHANGED <<mounted, timeZone, ranks, sessionVars, payrollData, location, matrix>>
  /\ UNCHANGED <<clientData, trainerVars>>

\* a header of the improved payroll table is clicked
ImprovedHandleSort ==
  \E column \in ImprovedColumns :
    ImprovedClick(column) /\ clicked' = clicked \cup {column}

\* a header of the payroll matrix is clicked
MatrixHandleSort ==
  /\ mounted = "payrollMatrix"
  /\ Len(payrollData) > 0
  /\ \E column \in MatrixColumns :
       LET s == HandleSort(matrix.sortBy, matrix.sortDirection, column)
       IN /\ matrix' = [sortBy |-> s.sortBy, sortDirection |-> s.sortDirection]
          /\ clicked' = clicked \cup {column}
  /\ UNCHANGED <<mounted, timeZone, ranks, sessionVars, payrollData, location, improved>>
  /\ UNCHANGED <<clientData, trainerVars>>

SortableTables == SessionTables \cup PayrollTables \cup {"multiMetric"}

InitClicks ==
  /\ mounted \in SortableTables
  /\ InitAll

NextClicks ==
  \/ LoadClickSession
  \/ LoadClickPayroll
  \/ ClassHandleSort
  \/ UidHandleSort
  \/ EnhHandleSort
  \/ MultiMetricOnSort
  \/ ImprovedHandleSort
  \/ MatrixHandleSort

SpecClicks == InitClicks /\ [][NextClicks]_vars

(***************************************************************************)
(* SpecSort: the uniqueId table and the improved payroll table over rows   *)
(* that tie in their sort keys; every header can be clicked.               *)
(***************************************************************************)
\* the uniqueId of the n-th class of the array
SortIds == <<"a", "c", "d", "e", "f", "g", "h", "i", "j">>

\* checkedInCount of the sessions of a class
SortKeys == {1, 2, Undefined}

\* the parent passes a `data` array with the two sessions of one more class
AddClass ==
  /\ mounted = "uidRanking"
  /\ Len(data) < 2 * MaxSortRows
  /\ \E k \in SortKeys :
       LET s == Session(SortIds[(Len(data) \div 2) + 1], "Barre", "Cycle",
                        "09:00", k, 2, 1, 0, 5)
       IN data' = data \o <<s, s>>
  /\ UNCHANGED <<mounted, timeZone, ranks, classRanking, enhanced, uidRanking, multiMetric, trends>>
  /\ UNCHANGED <<payrollVars, clientData, trainerVars, clicked>>

\* payroll records whose rows tie in location, teacher, month or metric
SortPayroll ==
  {PayrollRecord("Kwality House, Kemps Corner", tm[1], tm[2], 2, c, 7, 0, 2) :
     tm \in {<<"Ann", "2024-01">>, <<"Ann", "2024-02">>, <<"Bob", "2024-01">>},
     c \in {2, 4}}

LoadSortPayroll == AddPayroll(SortPayroll, MaxPayroll)

\* a header of the uniqueId table is clicked
UidSortBy == \E field \in UidColumns : UidClick(field) /\ UNCHANGED clicked

\* a header of the improved payroll table is clicked
ImprovedSortBy == \E column \in ImprovedColumns : ImprovedClick(column) /\ UNCHANGED clicked

InitSort ==
  /\ mounted \in {"uidRanking", "improvedPayroll"}
  /\ InitAll

NextSort ==
  \/ AddClass
  \/ LoadSortPayroll
  \/ UidSortBy
  \/ ImprovedSortBy

SpecSort == InitSort /\ [][NextSort]_vars

(***************************************************************************)
(* SpecTrainer: PowerCycleBarreStrengthSection and its child views.        *)
(***************************************************************************)
\* payroll records of two trainers over two months
TrainerRecords ==
  {TrainerRecord(tl[1], tl[2], m, 2, 3, paid, <<1, 2, paid>>, <<1, 1, 0>>) :
     tl \in {<<"Ann", "Kwality House, Kemps Corner">>, <<"Bob", "Kenkere House">>},
     m \in {"Jan-2024", "Feb-2024"},
     paid \in {Undefined, 3, 7}}

\* the parent passes a payroll array with one more record: filteredData and
\* processedData are recomputed, and every child view is rendered anew
AddTrainerRecord(pool, max) ==
  /\ mounted = "pcbSection"
  /\ Len(payrollData) < max
  /\ \E r \in pool :
       /\ payrollData' = Append(payrollData, r)
       /\ processedData' = ProcessTrainerData(ApplyFilters(payrollData', activeLocation))
  /\ rendered' = {}
  /\ UNCHANGED <<mounted, timeZone, ranks, sessionVars, location, improved, matrix>>
  /\ UNCHANGED <<clientData, activeLocation, clicked>>

LoadTrainerRecord == AddTrainerRecord(TrainerRecords, MaxTrainers)

\* a location tab is selected
SetActiveLocation ==
  /\ mounted = "pcbSection"
  /\ \E a \in ActiveLocations \ {activeLocation} :
       /\ activeLocation' = a
       /\ processedData' = ProcessTrainerData(ApplyFilters(payrollData, a))
  /\ rendered' = {}
  /\ UNCHANGED <<mounted, timeZone, ranks, sessionVars, payrollVars, clientData, clicked>>

\* the interactive charts compute topTrainersData: data.sort(...) in place
RenderInteractiveCharts ==
  /\ mounted = "pcbSection"
  /\ "interactiveCharts" \notin rendered
  /\ processedData' = AfterTopTrainersData(processedData)
  /\ rendered' = rendered \cup {"interactiveCharts"}
  /\ UNCHANGED <<mounted, timeZone, ranks, sessionVars, payrollVars, clientData, activeLocation, clicked>>

\* a view that computes from a copy of `data` ([...data]) or only reads it:
\* the top/bottom lists, the month-on-month and the year-on-year table
RenderReadOnlyView ==
  /\ mounted = "pcbSection"
  /\ \E v \in (TrainerViews \ {"interactiveCharts"}) \ rendered :
       rendered' = rendered \cup {v}
  /\ UNCHANGED <<mounted, timeZone, ranks, sessionVars, payrollVars, clientData>>
  /\ UNCHANGED <<activeLocation, processedData, clicked>>

InitTrainer ==
  /\ mounted = "pcbSection"
  /\ InitAll

NextTrainer ==
  \/ LoadTrainerRecord
  \/ SetActiveLocation
  \/ RenderInteractiveCharts
  \/ RenderReadOnlyView

SpecTrainer == InitTrainer /\ [][NextTrainer]_vars

(***************************************************************************)
(* SpecTrends: the two session trend tables over dated and undated         *)
(* sessions.                                                               *)
(***************************************************************************)
TrendTables == {"multiMetric", "monthOnMonthTrends"}

\* sessions of three months and without a date, of two dimensions, with
\* different capacities and with missing counts
TrendPool ==
  {TrendSession(d, "09:00", "Ann", <<2, 4, 10>>) :
     d \in {"2024-01-15", "2024-02-10", "2024-03-05", ""}}
  \cup {TrendSession("2024-01-15", "09:00", "Ann", <<1, 2, 0>>),
        TrendSession("2024-01-15", "09:00", "Ann", <<Undefined, Undefined, Undefined>>),
        TrendSession("2024-02-10", "18:00", "Bob", <<1, 2, 0>>)}

\* the parent passes a `data` array with one more session
LoadTrendSession ==
  /\ mounted \in TrendTables
  /\ Len(data) < MaxTrendSessions
  /\ \E s \in TrendPool : data' = Append(data, s)
  /\ UNCHANGED <<mounted, timeZone, ranks, classRanking, enhanced, uidRanking, multiMetric, trends>>
  /\ UNCHANGED <<payrollVars, clientData, trainerVars, clicked>>

\* the Analysis Dimension select of the multi-metric table
MultiMetricSetActiveTrendView ==
  /\ mounted = "multiMetric"
  /\ \E v \in TrendViews \ {multiMetric.activeTrendView} :
       multiMetric' = [multiMetric EXCEPT !.activeTrendView = v]
  /\ UNCHANGED <<mounted, timeZone, ranks, data, classRanking, enhanced, uidRanking, trends>>
  /\ UNCHANGED <<payrollVars, clientData, trainerVars, clicked>>

\* the Analysis Dimension select of the month-on-month trends table
TrendsSetActiveTrendView ==
  /\ mounted = "monthOnMonthTrends"
  /\ \E v \in TrendViews \ {trends.activeTrendView} :
       trends' = [trends EXCEPT !.activeTrendView = v]
  /\ UNCHANGED <<mounted, timeZone, ranks, data, classRanking, enhanced, uidRanking, multiMetric>>
  /\ UNCHANGED <<payrollVars, clientData, trainerVars, clicked>>

\* the options of the Min Sessions select of the month-on-month trends table
TrendMinSessionsOptions == {1, 5, 10, 20}

TrendsSetMinSessions ==
  /\ mounted = "monthOnMonthTrends"
  /\ \E n \in TrendMinSessionsOptions \ {trends.minSessions} :
       trends' = [trends EXCEPT !.minSessions = n]
  /\ UNCHANGED <<mounted, timeZone, ranks, data, classRanking, enhanced, uidRanking, multiMetric>>
  /\ UNCHANGED <<payrollVars, clientData, trainerVars, clicked>>

\* the Reset Filters button of the month-on-month trends table
TrendsResetFilters ==
  /\ mounted = "monthOnMonthTrends"
  /\ trends' = [trends EXCEPT !.activeTrendView = "timeslot", !.minSessions = 5]
  /\ trends' # trends
  /\ UNCHANGED <<mounted, timeZone, ranks, data, classRanking, enhanced, uidRanking, multiMetric>>
  /\ UNCHANGED <<payrollVars, clientData, trainerVars, clicked>>

InitTrends ==
  /\ mounted \in TrendTables
  /\ InitAll

NextTrends ==
  \/ LoadTrendSession
  \/ MultiMetricSetActiveTrendView
  \/ TrendsSetActiveTrendView
  \/ TrendsSetMinSessions
  \/ TrendsResetFilters

SpecTrends == InitTrends /\ [][NextTrends]_vars

(***************************************************************************)
(* SpecMonths: the improved payroll table over records of consecutive and  *)
(* of separated months, in a browser ahead of UTC and in one behind UTC.   *)
(***************************************************************************)
\* payroll records of three consecutive months
MonthPool ==
  {PayrollRecord("Kenkere House, Bengaluru", "Ann", m, 2, 3, 7, 0, 2) :
     m \in {"2023-12", "2024-01", "2024-02"}}
  \cup {PayrollRecord("Kenkere House, Bengaluru", "Bob", "2024-01", 1, 1, 3, 0, 1),
        PayrollRecord("Kwality House, Kemps Corner", "Ann", "2024-01", 1, 1, 3, 0, 1)}

LoadMonthPayroll == AddPayroll(MonthPool, MaxPayroll)

InitMonths ==
  /\ mounted = "improvedPayroll"
  /\ InitTables
  /\ timeZone \in TimeZones

NextMonths == LoadMonthPayroll

SpecMonths == InitMonths /\ [][NextMonths]_vars

(***************************************************************************)
(* SpecYears: the year-on-year and the month-on-month table of the trainer *)
(* section over processed records of several years.                        *)
(***************************************************************************)
PcbTables == {"pcbYearOnYear", "pcbMonthOnMonth"}

\* payroll records of three years and without monthYear; two of them share
\* trainer, location and month
YearRecords ==
  {TrainerRecord("Ann", "Kwality House, Kemps Corner", m, 2, 3, 7, <<1, 2, 4>>, <<1, 1, 0>>) :
     m \in {"Dec-2022", ""}}
  \cup {TrainerRecord("Ann", "Kwality House, Kemps Corner", "Feb-2024", 2, 3, 7,
                      <<1, 2, 4>>, <<1, 1, 3>>)}
  \cup {TrainerRecord("Ann", "Kwality House, Kemps Corner", "Jan-2023", 1, 1, p,
                      <<1, 1, p>>, <<0, 0, 0>>) : p \in {3, Undefined}}
  \cup {TrainerRecord("Bob", "Kenkere House", "Jan-2024", 2, 3, 7, <<1, 2, 4>>, <<1, 1, 3>>)}

\* the parent passes a `data` array with one more processed record
LoadProcessedTrainer ==
  /\ mounted \in PcbTables
  /\ Len(processedData) < MaxYearRecords
  /\ \E r \in YearRecords :
       processedData' = Append(processedData, ProcessTrainerRecord(r))
  /\ UNCHANGED <<mounted, timeZone, ranks, sessionVars, payrollVars>>
  /\ UNCHANGED <<clientData, activeLocation, rendered, clicked>>

InitYears ==
  /\ mounted \in PcbTables
  /\ InitAll

NextYears == LoadProcessedTrainer

SpecYears == InitYears /\ [][NextYears]_vars

(***************************************************************************)
(* SpecDeltas: the tables that show period-over-period changes: the        *)
(* multi-metric trends table and the year-on-year table.                   *)
(***************************************************************************)
InitDeltas ==
  /\ mounted \in {"multiMetric", "pcbYearOnYear"}
  /\ InitAll

NextDeltas ==
  \/ LoadTrendSession
  \/ MultiMetricSetActiveTrendView
  \/ LoadProcessedTrainer

SpecDeltas == InitDeltas /\ [][NextDeltas]_vars

(***************************************************************************)
(* SpecDates: the period-keyed views over records with and without a       *)
(* usable date.                                                            *)
(***************************************************************************)
\* clients with a date in either format, with an empty and an unparseable
\* date, and without the field
VisitClients ==
  {VisitClient(TRUE, d, 5) : d \in {"15/01/2024", "2024-02-10", "", "n/a"}}
  \cup {VisitClient(FALSE, "", 5)}

\* the parent passes a `data` array with one more client
LoadVisitClient ==
  /\ mounted = "clientMonthOnMonth"
  /\ Len(clientData) < MaxTrendSessions
  /\ \E c \in VisitClients : clientData' = Append(clientData, c)
  /\ UNCHANGED <<mounted, timeZone, ranks, sessionVars, payrollVars, trainerVars, clicked>>

InitDates ==
  /\ mounted \in TrendTables \cup {"clientMonthOnMonth"}
  /\ InitAll

NextDates ==
  \/ LoadTrendSession
  \/ MultiMetricSetActiveTrendView
  \/ TrendsSetActiveTrendView
  \/ TrendsSetMinSessions
  \/ TrendsResetFilters
  \/ LoadVisitClient

SpecDates == InitDates /\ [][NextDates]_vars

(***************************************************************************)
(* SpecGrouping: the grouping switches as functions of the requested       *)
(* dimension.  The selects offer the known options only; the cells are     *)
(* strings, and the first render is taken with any requested dimension.    *)
(***************************************************************************)
\* the requested dimensions: the known options and one the switch lacks
RequestedGroupings == GroupingOptions \cup {"trainer"}
RequestedTrendViews == TrendViews \cup {"classType"}

InitGrouping ==
  /\ mounted \in {"enhanced", "monthOnMonthTrends"}
  /\ timeZone = "Asia/Kolkata"
  /\ data = <<>>
  /\ classRanking = [sortBy |-> "totalSessions", sortDirection |-> "desc",
                     minSessions |-> 2]
  /\ \E g \in (IF mounted = "enhanced" THEN RequestedGroupings ELSE {"uniqueId1"}) :
       enhanced = [rankingCriteria |-> "totalSessions", viewOption |-> "detailed",
                   groupingOption |-> g,
                   minSessions |-> 2, sortField |-> "totalSessions",
                   sortDirection |-> "desc"]
  /\ uidRanking = [currentPage |-> 1, sortField |-> "avgCheckIns",
                   sortDirection |-> "desc"]
  /\ multiMetric = [activeTrendView |-> "timeslot", sortField |-> "totalSessions",
                    sortDirection |-> "desc"]
  /\ \E v \in (IF mounted = "monthOnMonthTrends" THEN RequestedTrendViews
               ELSE {"timeslot"}) :
       trends = [activeTrendView |-> v, minSessions |-> 5,
                 sortField |-> "totalValues.avgVisits", sortDirection |-> "desc"]
  /\ InitPayrollTables
  /\ InitViews

NextGrouping ==
  \/ LoadKeySession
  \/ SetMinSessions
  \/ LoadTrendSession
  \/ TrendsSetMinSessions

SpecGrouping == InitGrouping /\ [][NextGrouping]_vars

(***************************************************************************)
(* InteractiveClientConversionRanks under the ranking buttons: every load  *)
(* brings the clients of one more trainer at one more location.            *)
(***************************************************************************)
RankTrainers == <<"T1", "T2", "T3", "T4", "T5", "T6", "T7", "T8">>
RankLocations == <<"L1", "L2", "L3", "L4", "L5", "L6", "L7", "L8">>

\* the clients one trainer brings, as <<isNew, conversionStatus, ltv>>
RankBatches ==
  {<<<<"New", "Converted", 9>>, <<"New", "Converted", 9>>, <<"New", "Converted", 9>>>>,
   <<<<"New", "Converted", 9>>, <<"New", "Not Converted", 0>>,
     <<"New", "Not Converted", Undefined>>>>,
   <<<<"New", "Converted", 3>>>>,
   <<<<"Repeat", "Not Converted", 0>>>>}

\* the trainers met so far
RankLoaded == Cardinality({clientData[i].trainerName : i \in 1..Len(clientData)})

LoadRankClients ==
  /\ mounted = "conversionRanks"
  /\ RankLoaded < MaxRankTrainers
  /\ \E batch \in RankBatches :
       clientData' = clientData \o
         [i \in 1..Len(batch) |->
            RankClient(RankTrainers[RankLoaded + 1],
                       IF i = 1 THEN RankLocations[RankLoaded + 1] ELSE "",
                       RankLocations[RankLoaded + 1],
                       batch[i][1], batch[i][2], batch[i][3])]
  /\ UNCHANGED <<mounted, timeZone, ranks, sessionVars, payrollVars, trainerVars, clicked>>

\* the ranking-type buttons
SetActiveRankingType ==
  /\ mounted = "conversionRanks"
  /\ \E type \in RankingTypes :
       /\ type # ranks.activeRankingType
       /\ ranks' = [ranks EXCEPT !.activeRankingType = type]
  /\ UNCHANGED <<mounted, timeZone, sessionVars, payrollVars, clientData, trainerVars, clicked>>

\* the Top / Bottom buttons
SetActiveViewType ==
  /\ mounted = "conversionRanks"
  /\ \E view \in ViewTypes :
       /\ view # ranks.activeViewType
       /\ ranks' = [ranks EXCEPT !.activeViewType = view]
  /\ UNCHANGED <<mounted, timeZone, sessionVars, payrollVars, clientData, trainerVars, clicked>>

InitRanks ==
  /\ mounted = "conversionRanks"
  /\ InitAll

NextRanks ==
  \/ LoadRankClients
  \/ SetActiveRankingType
  \/ SetActiveViewType

SpecRanks == InitRanks /\ [][NextRanks]_vars

(***************************************************************************)
(* SpecMatrix: the payroll matrix over rows with different totals, under   *)
(* header clicks.                                                          *)
(***************************************************************************)
InitMatrix ==
  /\ mounted = "payrollMatrix"
  /\ InitAll

NextMatrix ==
  \/ LoadPayroll
  \/ MatrixHandleSort

SpecMatrix == InitMatrix /\ [][NextMatrix]_vars

(***************************************************************************)
(* SpecComparison: PowerCycleBarreStrengthComparison over payroll records  *)
(* whose formats lead in different metrics.                                *)
(***************************************************************************)
ComparisonRecords ==
  {ComparisonRecord("Ann", <<2, 4, 8, 1>>, <<1, 1, 9, 0>>, <<1, 3, 3, 2>>),
   ComparisonRecord("Ann", <<1, 1, 1, 2>>, <<3, 5, 2, 1>>, <<2, 2, 9, 0>>),
   ComparisonRecord("Bob", <<1, 1, 1, 0>>, <<1, 1, 1, 0>>, <<1, 1, 1, 0>>),
   ComparisonRecord("Bob", <<0, 0, 0, 0>>, <<0, 0, 0, 0>>, <<2, 6, 4, 1>>),
   ComparisonRecord("Bob", <<Undefined, Undefined, Undefined, Undefined>>,
                    <<1, 2, 3, 3>>, <<0, 0, 0, 0>>)}

\* the parent passes a payroll array with one more record
LoadComparisonRecord ==
  /\ mounted = "pcbComparison"
  /\ Len(payrollData) < MaxPayroll
  /\ \E r \in ComparisonRecords : payrollData' = Append(payrollData, r)
  /\ UNCHANGED <<mounted, timeZone, ranks, sessionVars, location, improved, matrix>>
  /\ UNCHANGED <<clientData, trainerVars, clicked>>

InitComparison ==
  /\ mounted = "pcbComparison"
  /\ InitAll

NextComparison == LoadComparisonRecord

SpecComparison == InitComparison /\ [][NextComparison]_vars

(***************************************************************************)
(* SpecEnhanced: the enhanced ranking table over a fixed `data` array,     *)
(* under its header clicks, its selects and its Reset button.              *)
(***************************************************************************)
\* the values of rankingOptions
RankingOptions ==
  {"totalSessions", "classAvgWithEmpty", "totalCheckedIn", "fillRate",
   "cancellationRate", "totalRevenue", "utilizationRate"}

\* the values of viewOptions
ViewOptions == {"compact", "detailed", "performance", "revenue", "utilization"}

\* getColumns: the sortable columns of a view
EnhViewColumns(viewOption) ==
  IF viewOption = "detailed" THEN EnhColumns
  ELSE EnhColumns \ {"totalRevenue", "revenuePerSession"}

\* two classes that meet the default minimum and differ in every total, in
\* either order of first appearance
EnhData ==
  LET few == Session("b", "Barre", "Cycle", "09:00", 1, 2, 1, 0, 5)
      many == Session("10", "", "Cycle", "09:00", 2, 2, 2, 1, 5)
  IN {<<few, few, many, many, many>>, <<many, many, many, few, few>>}

\* a header of the enhanced table is clicked
EnhSortBy ==
  \E field \in EnhViewColumns(enhanced.viewOption) : EnhClick(field) /\ UNCHANGED clicked

\* the Ranking Criteria select
SetRankingCriteria ==
  /\ mounted = "enhanced"
  /\ \E c \in RankingOptions : enhanced' = [enhanced EXCEPT !.rankingCriteria = c]
  /\ UNCHANGED <<mounted, timeZone, ranks, data, classRanking, uidRanking, multiMetric, trends>>
  /\ UNCHANGED <<payrollVars, clientData, trainerVars, clicked>>

\* the View select
SetViewOption ==
  /\ mounted = "enhanced"
  /\ \E v \in ViewOptions : enhanced' = [enhanced EXCEPT !.viewOption = v]
  /\ UNCHANGED <<mounted, timeZone, ranks, data, classRanking, uidRanking, multiMetric, trends>>
  /\ UNCHANGED <<payrollVars, clientData, trainerVars, clicked>>

\* the Reset button
EnhReset ==
  /\ mounted = "enhanced"
  /\ enhanced' = [enhanced EXCEPT !.rankingCriteria = "totalSessions",
                                  !.viewOption = "detailed",
                                  !.groupingOption = "uniqueId1",
                                  !.minSessions = 2]
  /\ UNCHANGED <<mounted, timeZone, ranks, data, classRanking, uidRanking, multiMetric, trends>>
  /\ UNCHANGED <<payrollVars, clientData, trainerVars, clicked>>

\* the table is mounted on one of the data arrays
InitEnhanced ==
  /\ mounted = "enhanced"
  /\ timeZone = "Asia/Kolkata"
  /\ \E d \in EnhData :
       data = d
  /\ classRanking = [sortBy |-> "totalSessions", sortDirection |-> "desc",
                     minSessions |-> 2]
  /\ enhanced = [rankingCriteria |-> "totalSessions", viewOption |-> "detailed",
                 groupingOption |-> "uniqueId1",
                 minSessions |-> 2, sortField |-> "totalSessions",
                 sortDirection |-> "desc"]
  /\ uidRanking = [currentPage |-> 1, sortField |-> "avgCheckIns",
                   sortDirection |-> "desc"]
  /\ multiMetric = [activeTrendView |-> "timeslot", sortField |-> "totalSessions",
                    sortDirection |-> "desc"]
  /\ trends = [activeTrendView |-> "timeslot", minSessions |-> 5,
               sortField |-> "totalValues.avgVisits", sortDirection |-> "desc"]
  /\ InitPayrollTables
  /\ InitViews

NextEnhanced ==
  \/ EnhSortBy
  \/ SetRankingCriteria
  \/ SetViewOption
  \/ SetGroupingOption
  \/ SetMinSessions
  \/ EnhReset

SpecEnhanced == InitEnhanced /\ [][NextEnhanced]_vars

(***************************************************************************)
(* SpecPages: the uniqueId table under page changes, header clicks and     *)
(* changes of its data prop.                                               *)
(***************************************************************************)
PageIds ==
  <<"c01", "c02", "c03", "c04", "c05", "c06", "c07", "c08", "c09", "c10", "c11">>

\* n classes of two sessions each
PageData(n) ==
  [i \in 1..(2 * n) |->
     Session(PageIds[(i + 1) \div 2], "", "Cycle", "09:00", 1, 2, 1, 0, 5)]

\* data props of no page, one page and two pages
PageDataSets == {PageData(n) : n \in {0, 1, 11}}

\* handlePageChange(page), called by a control of the pager
UidHandlePageChange ==
  /\ mounted = "uidRanking"
  /\ Len(data) > 0
  /\ LET totalPages == TotalPages(SortedPerformance(data, uidRanking))
     IN \E page \in PagerRequests(uidRanking.currentPage, totalPages) :
          uidRanking' =
            [uidRanking EXCEPT
               !.currentPage = LET m == IF page < totalPages THEN page ELSE totalPages
                               IN IF m < 1 THEN 1 ELSE m]
  /\ UNCHANGED <<mounted, timeZone, ranks, data, classRanking, enhanced, multiMetric, trends>>
  /\ UNCHANGED <<payrollVars, clientData, trainerVars, clicked>>

\* the parent passes another data array: the component renders again with its
\* state as it is; a render whose hook calls differ from those of the render
\* before throws, and the tree is unmounted
UidSetData ==
  /\ mounted = "uidRanking"
  /\ \E d \in PageDataSets \ {data} :
       /\ data' = d
       /\ mounted' = IF HookCalls(d) = HookCalls(data) THEN mounted ELSE ""
  /\ UNCHANGED <<timeZone, ranks, classRanking, enhanced, uidRanking, multiMetric, trends>>
  /\ UNCHANGED <<payrollVars, clientData, trainerVars, clicked>>

InitPages ==
  /\ mounted = "uidRanking"
  /\ timeZone = "Asia/Kolkata"
  /\ data \in PageDataSets
  /\ classRanking = [sortBy |-> "totalSessions", sortDirection |-> "desc",
                     minSessions |-> 2]
  /\ enhanced = [rankingCriteria |-> "totalSessions", viewOption |-> "detailed",
                 groupingOption |-> "uniqueId1",
                 minSessions |-> 2, sortField |-> "totalSessions",
                 sortDirection |-> "desc"]
  /\ uidRanking = [currentPage |-> 1, sortField |-> "avgCheckIns",
                   sortDirection |-> "desc"]
  /\ multiMetric = [activeTrendView |-> "timeslot", sortField |-> "totalSessions",
                    sortDirection |-> "desc"]
  /\ trends = [activeTrendView |-> "timeslot", minSessions |-> 5,
               sortField |-> "totalValues.avgVisits", sortDirection |-> "desc"]
  /\ InitPayrollTables
  /\ InitViews

NextPages ==
  \/ UidSortBy
  \/ UidHandlePageChange
  \/ UidSetData

SpecPages == InitPages /\ [][NextPages]_vars

(***************************************************************************)
(* SpecClients: the three client-conversion views over the same clients,   *)
(* every one with a firstVisitDate that parses.                            *)
(***************************************************************************)
\* a client record with its statuses as the sheet spells them
StatusClient(trainer, firstVisitDate, isNew, conversionStatus, retentionStatus) ==
  [firstVisitDate |-> firstVisitDate, firstPurchase |-> "",
   visitsPostTrial |-> Undefined]
  @@ Client(trainer, isNew, conversionStatus, retentionStatus, 5)

StatusClients ==
  {StatusClient(t, d, n, c, r) :
     t \in {"Ann", "Bob"}, d \in {"15/01/2024", "2024-02-10"},
     n \in {"New", "new", ""}, c \in {"Converted", "Not Converted"},
     r \in {"Retained", "Not Retained"}}

\* the parent passes a `data` array with one more client to the three views
LoadStatusClient ==
  /\ mounted = "clientConversion"
  /\ Len(clientData) < MaxClients
  /\ \E c \in StatusClients : clientData' = Append(clientData, c)
  /\ UNCHANGED <<mounted, timeZone, ranks, sessionVars, payrollVars, trainerVars, clicked>>

InitClients ==
  /\ mounted = "clientConversion"
  /\ InitAll

NextClients == LoadStatusClient

SpecClients == InitClients /\ [][NextClients]_vars

(***************************************************************************)
(* SpecProcess: processTrainerData over payroll records of the three       *)
(* formats.                                                                *)
(***************************************************************************)
\* the parent passes a payroll array with one more record of three formats
LoadFormatRecord == AddTrainerRecord(ComparisonRecords, MaxPayroll)

NextProcess ==
  \/ LoadFormatRecord
  \/ SetActiveLocation

SpecProcess == InitTrainer /\ [][NextProcess]_vars

(***************************************************************************)
(* Properties of the class ranking tables.                                 *)
(***************************************************************************)
\* positions of the input records that fall into group k of the class-type table
ClassContributors(k) ==
  {i \in 1..Len(data) : ClassTypeOf(data[i]) = k /\ ~IsHosted(ClassTypeOf(data[i]))}

\* positions of the input records that fall into group k of the enhanced table
EnhContributors(k) ==
  {i \in 1..Len(data) : EnhGroupKey(data[i], enhanced.groupingOption) = k}

RowKeys(rows) == {rows[i].key : i \in 1..Len(rows)}

\* C1: a group is emitted if and only if the number of sessions accumulated
\* over all of its contributing input records is >= minSessions (the test is
\* on the final per-group total, and is inclusive).
C1_ThresholdOnFinalTotal ==
  /\ mounted = "classRanking" =>
       \A i \in 1..Len(data) :
         LET k == ClassTypeOf(data[i]) IN
         ClassContributors(k) # {} =>
           (k \in RowKeys(ClassProcessedData(data, classRanking))
              <=> Cardinality(ClassContributors(k)) >= classRanking.minSessions)
  /\ mounted = "enhanced" =>
       \A i \in 1..Len(data) :
         LET k == EnhGroupKey(data[i], enhanced.groupingOption) IN
         (k \in RowKeys(EnhProcessedData(data, enhanced))
            <=> Cardinality(EnhContributors(k)) >= enhanced.minSessions)

\* C1 witness: a group whose total equals the threshold exactly, reached only
\* by combining several records, is emitted
C1_Witness ==
  /\ mounted = "enhanced"
  /\ enhanced.minSessions >= 2
  /\ \E i \in 1..Len(data) :
       LET k == EnhGroupKey(data[i], enhanced.groupingOption) IN
       /\ Cardinality(EnhContributors(k)) = enhanced.minSessions
       /\ k \in RowKeys(EnhProcessedData(data, enhanced))

\* a session whose class type (cleanedClass, else classType) contains 'hosted'
HostedSession(s) == IsHosted(StrOr(s.cleanedClass, s.classType))

NoHostedIn(rows) ==
  \A i \in 1..Len(rows) :
    \A j \in 1..Len(rows[i].sessions) : ~HostedSession(rows[i].sessions[j])

\* C2: no hosted session contributes to a row emitted by the class-type
\* ranking, by the enhanced ranking under any grouping option, or by the
\* uniqueId-grouped ranking.
C2_NoHostedSessionContributes ==
  /\ mounted = "classRanking" => NoHostedIn(ClassProcessedData(data, classRanking))
  /\ mounted = "enhanced" => NoHostedIn(EnhProcessedData(data, enhanced))
  /\ mounted = "uidRanking" => NoHostedIn(SortedPerformance(data, uidRanking))

\* position in `data` of the first record with group key k under key function
FirstSeenEnh(k) ==
  CHOOSE i \in 1..Len(data) :
    /\ EnhGroupKey(data[i], enhanced.groupingOption) = k
    /\ \A j \in 1..(i - 1) : EnhGroupKey(data[j], enhanced.groupingOption) # k

FirstSeenUid(k) ==
  CHOOSE i \in 1..Len(data) :
    /\ StrOr(data[i].uniqueId, "unknown") = k
    /\ \A j \in 1..(i - 1) : StrOr(data[j].uniqueId, "unknown") # k

\* C10: before any sort, rows are emitted in the order in which their group
\* keys were first seen in the input, for every key string (digits-only
\* identifiers included).
C10_FirstSeenOrder ==
  /\ mounted = "enhanced" =>
       LET rows == EnhEnriched(data, enhanced) IN
       \A i, j \in 1..Len(rows) :
         i < j => FirstSeenEnh(rows[i].key) < FirstSeenEnh(rows[j].key)
  /\ mounted = "uidRanking" =>
       LET groups == ClassGroups(data) IN
       \A i, j \in 1..Len(groups) :
         i < j => FirstSeenUid(groups[i].key) < FirstSeenUid(groups[j].key)

\* the rows the mounted table shows
ClassRows == ClassProcessedData(data, classRanking)
EnhRows == EnhProcessedData(data, enhanced)
UidRows == ClassPerformance(data)

InPercentRange(r) == RatioGeq0(r) /\ RatioLeq(r, 100)

\* every numeric field of the sessions is present (and so non-negative)
AllNumeric(sessions) ==
  \A j \in 1..Len(sessions) :
    /\ IsNumber(sessions[j].checkedInCount) /\ IsNumber(sessions[j].capacity)
    /\ IsNumber(sessions[j].bookedCount) /\ IsNumber(sessions[j].lateCancelledCount)

\* C3: on every emitted row built from records whose numeric fields are all
\* non-negative, fillRate, cancellationRate and utilizationRate lie in
\* [0, 100].
C3_RatesWithinPercentRange ==
  /\ mounted = "classRanking" =>
       \A i \in 1..Len(ClassRows) :
         AllNumeric(ClassRows[i].sessions) =>
           /\ InPercentRange(ClassRows[i].fillRate)
           /\ InPercentRange(ClassRows[i].utilizationRate)
  /\ mounted = "enhanced" =>
       \A i \in 1..Len(EnhRows) :
         AllNumeric(EnhRows[i].sessions) =>
           /\ InPercentRange(EnhRows[i].fillRate)
           /\ InPercentRange(EnhRows[i].cancellationRate)
           /\ InPercentRange(EnhRows[i].utilizationRate)

\* a ratio with denominator accumulator den is finite, and 0 when den is 0
GuardedRatio(r, den) == IsFinite(r) /\ (den = 0 => IsZero(r))

\* the rows the payroll tables and the conversion ranks show
ImprovedRows == ImprovedProcessedData(payrollData, location, improved)
MatrixRows == MatrixTableData(payrollData, location, matrix)
MatrixMonths == Months(PayrollFiltered(payrollData, location))
StatRows == TrainerStats(clientData)

\* the guarded ratios of the class ranking tables
RankingRatiosGuarded ==
  /\ mounted = "classRanking" =>
       \A i \in 1..Len(ClassRows) :
         LET r == ClassRows[i] IN
         /\ GuardedRatio(r.fillRate, r.totalCapacity)
         /\ GuardedRatio(r.showUpRate, r.totalBooked)
         /\ GuardedRatio(r.avgRevenue, r.totalSessions)
         /\ GuardedRatio(r.revenuePerAttendee, r.totalCheckedIn)
         /\ GuardedRatio(r.utilizationRate, r.totalSessions)
         /\ GuardedRatio(r.avgClassSize, r.totalSessions)
         /\ GuardedRatio(r.emptySessionRate, r.totalSessions)
         /\ GuardedRatio(r.revenueEfficiency, r.totalSessions)
  /\ mounted = "enhanced" =>
       \A i \in 1..Len(EnhRows) :
         LET r == EnhRows[i] IN
         /\ GuardedRatio(r.classAvgWithEmpty, r.totalSessions)
         /\ GuardedRatio(r.classAvgWithoutEmpty, r.nonEmptySessions)
         /\ GuardedRatio(r.fillRate, r.totalCapacity)
         /\ GuardedRatio(r.cancellationRate, r.totalBooked)
         /\ GuardedRatio(r.showUpRate, r.totalBooked)
         /\ GuardedRatio(r.utilizationRate, r.totalSessions)
         /\ GuardedRatio(r.revenuePerSession, r.totalSessions)
         /\ GuardedRatio(r.revenuePerAttendee, r.totalCheckedIn)
  /\ mounted = "uidRanking" =>
       \A i \in 1..Len(UidRows) :
         LET r == UidRows[i] IN
         /\ r.sessionCount > 0
         /\ IsNumber(r.totalCheckIns) => GuardedRatio(r.avgCheckIns, r.sessionCount)
         /\ IsNumber(r.totalCheckIns) /\ IsNumber(r.totalCapacity) =>
              GuardedRatio(r.fillPercentage, r.totalCapacity)

\* the previous-month row of an improved payroll row, when it exists
ImprovedPrev(r) ==
  {p \in 1..Len(ImprovedRows) :
     /\ ImprovedRows[p].location = r.location
     /\ ImprovedRows[p].teacherName = r.teacherName
     /\ ImprovedRows[p].monthYear = PrevMonthKey(r.monthYear)}

\* the guarded ratios and deltas of the conversion ranks and payroll rows
PayrollRatiosGuarded ==
  /\ mounted = "conversionRanks" =>
       \A i \in 1..Len(StatRows) :
         /\ GuardedRatio(StatRows[i].conversionRate, StatRows[i].newMembers)
         /\ GuardedRatio(StatRows[i].avgLTV, StatRows[i].totalClients)
  /\ mounted = "improvedPayroll" =>
       \A i \in 1..Len(ImprovedRows) :
         LET r == ImprovedRows[i] IN
         /\ GuardedRatio(r.classAvgWithEmpty, r.totalSessions)
         /\ GuardedRatio(r.classAvgWithoutEmpty, r.nonEmptySession)
         /\ GuardedRatio(r.fillRate, r.totalSessions)
         /\ GuardedRatio(r.cancelRate, r.totalSessions)
         /\ GuardedRatio(r.revenuePerSession, r.totalSessions)
         /\ GuardedRatio(r.utilizationRate, r.totalSessions)
         /\ \A p \in ImprovedPrev(r) :
              /\ GuardedRatio(r.sessionsChange, ImprovedRows[p].totalSessions)
              /\ GuardedRatio(r.customersChange, ImprovedRows[p].totalCustomers)
              /\ GuardedRatio(r.revenueChange, ImprovedRows[p].totalPaid)
  /\ mounted = "payrollMatrix" =>
       \A i \in 1..Len(MatrixRows) :
         \A j \in 1..Len(MatrixRows[i].monthlyData) :
           LET m == MatrixRows[i].monthlyData[j] IN
           /\ GuardedRatio(m.classAvgWithEmpty, m.totalSessions)
           /\ GuardedRatio(m.classAvgWithoutEmpty, m.nonEmptySession)
           /\ GuardedRatio(m.fillRate, m.totalSessions)
           /\ GuardedRatio(m.cancelRate, m.totalSessions)

\* the trend indicator of a month cell of the payroll matrix for a metric
CellTrend(c, metric) ==
  GetMonthTrend(Bucket(MatrixRows[c[1]], MatrixMonths[c[2]]),
                PrevMonth(MatrixRows[c[1]], MatrixMonths, c[2]), metric)

\* the denominator of that trend: the previous month's value
CellPrevious(c, metric) ==
  MetricOf(PrevMonth(MatrixRows[c[1]], MatrixMonths, c[2]), metric)

C5_MissingFieldsCountAsZero ==
  /\ mounted = "classRanking" =>
       \A i \in 1..Len(ClassRows) :
         /\ IsNumber(ClassRows[i].totalCheckedIn)
         /\ IsNumber(ClassRows[i].totalCapacity)
         /\ IsFinite(ClassRows[i].fillRate)
  /\ mounted = "enhanced" =>
       \A i \in 1..Len(EnhRows) :
         /\ IsNumber(EnhRows[i].totalCheckedIn)
         /\ IsNumber(EnhRows[i].totalCapacity)
         /\ IsFinite(EnhRows[i].fillRate)
  /\ mounted = "uidRanking" =>
       \A i \in 1..Len(UidRows) :
         /\ IsNumber(UidRows[i].totalCheckIns)
         /\ IsNumber(UidRows[i].totalCapacity)
         /\ IsFinite(UidRows[i].avgCheckIns)
         /\ IsFinite(UidRows[i].fillPercentage)

\* the sum of a field over payroll records, a missing field counted as 0
RECURSIVE SumOfField(_, _)
SumOfField(records, field) ==
  IF records = <<>> THEN 0
  ELSE SumOfField(Front(records), field) + OrZero(Last(records)[field])

\* the sum of a total over the rows of the payroll matrix
RECURSIVE SumOfTotals(_, _)
SumOfTotals(rows, field) ==
  IF rows = <<>> THEN 0
  ELSE SumOfTotals(Front(rows), field) + Last(rows).totals[field]

ConservedFields == {"totalSessions", "totalCustomers", "totalPaid"}

\* C6: the sums of totalSessions, totalCustomers and totalPaid over the
\* emitted rows (the rows of the improved payroll table, the row totals of the
\* payroll matrix) equal the sums over the location-filtered input records,
\* a missing field counted as 0.
C6_TotalsConserved ==
  \A field \in ConservedFields :
    LET expected == SumOfField(PayrollFiltered(payrollData, location), field) IN
    /\ mounted = "improvedPayroll" => SumOfField(ImprovedRows, field) = expected
    /\ mounted = "payrollMatrix" => SumOfTotals(MatrixRows, field) = expected

\* three records, one of them removed by the location filter, the other two
\* merged into one row although one of them lacks totalSessions and totalPaid
C6_Witness ==
  LET kept == PayrollFiltered(payrollData, location) IN
  /\ mounted = "improvedPayroll"
  /\ location = "Kenkere House"
  /\ Len(payrollData) = 3
  /\ Len(kept) = 2
  /\ Len(ImprovedRows) = 1
  /\ kept[1].totalSessions = Undefined
  /\ kept[2].totalSessions = 2
  /\ ImprovedRows[1].totalPaid = 7

\* C7: no view computation changes the shared processed array: it always
\* equals what processTrainerData returned for the filtered payroll records.
C7_SharedArrayUnchanged ==
  mounted = "pcbSection" =>
    processedData = ProcessTrainerData(ApplyFilters(payrollData, activeLocation))

\* the sort column and the direction of the mounted table
SortState ==
  CASE mounted = "classRanking" ->
         [column |-> classRanking.sortBy, direction |-> classRanking.sortDirection]
    [] mounted = "enhanced" ->
         [column |-> enhanced.sortField, direction |-> enhanced.sortDirection]
    [] mounted = "uidRanking" ->
         [column |-> uidRanking.sortField, direction |-> uidRanking.sortDirection]
    [] mounted = "multiMetric" ->
         [column |-> multiMetric.sortField, direction |-> multiMetric.sortDirection]
    [] mounted = "improvedPayroll" ->
         [column |-> improved.sortBy, direction |-> improved.sortDirection]
    [] mounted = "payrollMatrix" ->
         [column |-> matrix.sortBy, direction |-> matrix.sortDirection]
    [] OTHER -> [column |-> "", direction |-> "desc"]

\* the sort column and the direction of the mounted table at mount
MountState ==
  CASE mounted = "classRanking" -> [column |-> "totalSessions", direction |-> "desc"]
    [] mounted = "enhanced" -> [column |-> "totalSessions", direction |-> "desc"]
    [] mounted = "uidRanking" -> [column |-> "avgCheckIns", direction |-> "desc"]
    [] mounted = "multiMetric" -> [column |-> "totalSessions", direction |-> "desc"]
    [] mounted = "improvedPayroll" -> [column |-> "monthYear", direction |-> "desc"]
    [] mounted = "payrollMatrix" -> [column |-> "location", direction |-> "asc"]
    [] OTHER -> [column |-> "", direction |-> "desc"]

Flip(direction) == IF direction = "asc" THEN "desc" ELSE "asc"

\* a click: another column becomes the sort column with 'desc', the current
\* sort column keeps its place and flips its direction
SortClickStep ==
  SortState' # SortState =>
    IF SortState'.column # SortState.column
    THEN SortState'.direction = "desc"
    ELSE SortState'.direction = Flip(SortState.direction)

KeyEqual(a, b, field, strings) ==
  IF field \in strings THEN a = b
  ELSE IF field \in RatioFields THEN IsFinite(a) /\ IsFinite(b) /\ RatioCmp(a, b) = 0
  ELSE IsNumber(a) /\ IsNumber(b) /\ a = b

\* the position of the row with the given identity
PositionOf(rows, id, idField) == CHOOSE p \in 1..Len(rows) : rows[p][idField] = id

\* rows with equal keys keep the relative order of the emission sequence
StableOrder(pre, post, field, strings, idField) ==
  \A i, j \in 1..Len(pre) :
    (i < j /\ KeyEqual(pre[i][field], pre[j][field], field, strings)) =>
      PositionOf(post, pre[i][idField], idField)
        < PositionOf(post, pre[j][idField], idField)

\* C9: for every sort field and both directions, two rows with equal
\* sort-key values appear in the sorted output in the relative order they
\* had in the emission sequence.
C9_SortIsStable ==
  /\ mounted = "uidRanking" =>
       StableOrder(UidRows, SortedPerformance(data, uidRanking),
                   uidRanking.sortField, UidStringFields, "uniqueId")
  /\ mounted = "improvedPayroll" =>
       StableOrder(ImprovedResults(payrollData, location), ImprovedRows,
                   improved.sortBy, StringFields, "key")

(***************************************************************************)
(* Properties of the session trend tables.                                 *)
(***************************************************************************)
\* the rows of the multi-metric table
MultiMetricRows == ProcessedTrendData(data, multiMetric)

\* the sessions of `data` that belong to a dimension under a view
DimensionSessions(dimension, view) ==
  {i \in 1..Len(data) : DimensionKey(data[i], view).key = dimension}

\* the calendar month of a session's date; "" when the date is missing or
\* cannot be parsed
CalendarMonth(session) ==
  IF session.date \in {"2024-01-15", "2024-02-10", "2024-03-05"}
  THEN MonthKey(session.date) ELSE ""

\* the months in which a dimension has data, in calendar order
MonthsWithData(dimension, view) ==
  LET present == {CalendarMonth(data[i]) : i \in DimensionSessions(dimension, view)}
  IN FilterIdx(CodeUnitOrder, {m \in 1..Len(CodeUnitOrder) :
                                 /\ CodeUnitOrder[m] # "NaN-NaN"
                                 /\ CodeUnitOrder[m] \in present})

RECURSIVE SumOver(_, _)
\* the sum of f[i] over a finite set of indices
SumOver(f, idx) ==
  IF idx = {} THEN 0
  ELSE LET i == CHOOSE j \in idx : TRUE IN f[i] + SumOver(f, idx \ {i})

\* the total of a metric over the sessions of a dimension in a month
PeriodTotal(dimension, view, month, metric) ==
  LET idx == {i \in DimensionSessions(dimension, view) : CalendarMonth(data[i]) = month}
  IN CASE metric = "sessions" -> Cardinality(idx)
       [] metric = "attendance" ->
            SumOver([i \in 1..Len(data) |-> OrZero(data[i].checkedInCount)], idx)
       [] metric = "revenue" ->
            SumOver([i \in 1..Len(data) |-> OrZero(data[i].totalPaid)], idx)

\* (current - previous) / previous * 100 when previous > 0, and 0 otherwise
PeriodDelta(current, previous) ==
  IF previous > 0 THEN Quot(100 * (current - previous), previous) ELSE Zero

\* equality of two finite ratios
RatioEq(a, b) == a.d # 0 /\ b.d # 0 /\ a.n * b.d = b.n * a.d

\* the change the table should show for a dimension and a metric
ExpectedMomChange(dimension, view, metric) ==
  LET months == MonthsWithData(dimension, view)
  IN IF Len(months) >= 2
     THEN PeriodDelta(PeriodTotal(dimension, view, months[Len(months)], metric),
                      PeriodTotal(dimension, view, months[Len(months) - 1], metric))
     ELSE Zero

\* C11: in the multi-metric table the three month-over-month changes of a
\* dimension compare the latest month that has data for the dimension with
\* the next-latest one (gaps are skipped), and are 0 for a dimension with
\* data in fewer than two months
C11_MomComparesLatestTwoMonths ==
  mounted = "multiMetric" =>
    \A i \in 1..Len(MultiMetricRows) :
      LET r == MultiMetricRows[i]
          view == multiMetric.activeTrendView
      IN /\ RatioEq(r.momSessionsChange, ExpectedMomChange(r.dimension, view, "sessions"))
         /\ RatioEq(r.momAttendanceChange,
                    ExpectedMomChange(r.dimension, view, "attendance"))
         /\ RatioEq(r.momRevenueChange, ExpectedMomChange(r.dimension, view, "revenue"))

(***************************************************************************)
(* Properties of the period comparisons.                                   *)
(***************************************************************************)
\* the calendar month before a month written YYYY-MM
CalendarPrevMonth(monthYear) ==
  CASE monthYear = "2024-02" -> "2024-01"
    [] monthYear = "2024-01" -> "2023-12"
    [] monthYear = "2023-12" -> "2023-11"

\* C12: a row of the improved payroll table has trends if and only if there
\* is a row of the same location and teacher for the calendar month right
\* before the row's month (December of the year before for January); earlier
\* months do not stand in for a missing one
C12_TrendsIffPrecedingMonth ==
  mounted = "improvedPayroll" =>
    \A i \in 1..Len(ImprovedRows) :
      LET r == ImprovedRows[i]
      IN r.hasTrends <=>
           \E j \in 1..Len(ImprovedRows) :
             /\ ImprovedRows[j].location = r.location
             /\ ImprovedRows[j].teacherName = r.teacherName
             /\ ImprovedRows[j].monthYear = CalendarPrevMonth(r.monthYear)

\* the rows of the year-on-year table
YearRows == YearOnYearData(processedData)

\* the year of a record's monthYear; "" when the record has no monthYear
CalendarYear(trainer) ==
  CASE trainer.monthYear = "Dec-2022" -> "2022"
    [] trainer.monthYear = "Jan-2023" -> "2023"
    [] trainer.monthYear \in {"Jan-2024", "Feb-2024"} -> "2024"
    [] OTHER -> ""

\* the records of a trainer at a location
TrainerRecordsOf(trainerName, loc) ==
  {i \in 1..Len(processedData) :
     /\ processedData[i].trainerName = trainerName
     /\ processedData[i].location = loc}

\* the years in which a trainer at a location has records, ascending
YearsWithRecords(trainerName, loc) ==
  LET present == {CalendarYear(processedData[i]) : i \in TrainerRecordsOf(trainerName, loc)}
  IN FilterIdx(YearOrder, {y \in 1..Len(YearOrder) : YearOrder[y] \in present})

\* the total of a field over the records of a trainer at a location in a year
YearTotal(trainerName, loc, year, field) ==
  SumOver([i \in 1..Len(processedData) |-> processedData[i][field]],
          {i \in TrainerRecordsOf(trainerName, loc) :
             CalendarYear(processedData[i]) = year})

\* C13: the year-on-year table has exactly one row for every trainer and
\* location with records in two or more distinct years, whose totals are
\* those of the two latest years, and no row for a trainer and location
\* whose records lie in one year
C13_OneRowPerTrainerWithTwoYears ==
  mounted = "pcbYearOnYear" =>
    \A k \in 1..Len(processedData) :
      LET t == processedData[k].trainerName
          l == processedData[k].location
          years == YearsWithRecords(t, l)
          rows == {i \in 1..Len(YearRows) :
                     YearRows[i].trainerName = t /\ YearRows[i].location = l}
      IN IF Len(years) >= 2
         THEN /\ Cardinality(rows) = 1
              /\ \A i \in rows :
                   /\ YearRows[i].currentYear.revenue
                        = YearTotal(t, l, years[Len(years)], "totalPaid")
                   /\ YearRows[i].currentYear.sessions
                        = YearTotal(t, l, years[Len(years)], "totalSessions")
                   /\ YearRows[i].previousYear.revenue
                        = YearTotal(t, l, years[Len(years) - 1], "totalPaid")
                   /\ YearRows[i].previousYear.sessions
                        = YearTotal(t, l, years[Len(years) - 1], "totalSessions")
         ELSE rows = {}

\* the period labels under which the table files the sessions of a dimension
BucketLabels(dimension, view) ==
  {MonthKey(data[i].date) : i \in DimensionSessions(dimension, view)}

\* the total of a metric over all sessions of a dimension filed under a label
BucketTotal(dimension, view, label, metric) ==
  LET idx == {i \in DimensionSessions(dimension, view) : MonthKey(data[i].date) = label}
  IN CASE metric = "sessions" -> Cardinality(idx)
       [] metric = "attendance" ->
            SumOver([i \in 1..Len(data) |-> OrZero(data[i].checkedInCount)], idx)
       [] metric = "revenue" ->
            SumOver([i \in 1..Len(data) |-> OrZero(data[i].totalPaid)], idx)

\* the period labels under which the table files the records of a trainer
YearLabels(trainerName, loc) ==
  {YearOf(processedData[i].monthYear) : i \in TrainerRecordsOf(trainerName, loc)}

\* the total of a field over all records of a trainer filed under a label
LabelTotal(trainerName, loc, label, field) ==
  SumOver([i \in 1..Len(processedData) |-> processedData[i][field]],
          {i \in TrainerRecordsOf(trainerName, loc) :
             YearOf(processedData[i].monthYear) = label})

\* the three changes of a multi-metric row are the deltas of the totals of
\* two periods of the row's dimension
MomChangesAreDeltas(r, view) ==
  Len(r.monthlyBreakdown) >= 2 =>
    \E cur \in BucketLabels(r.dimension, view) :
      \E prev \in BucketLabels(r.dimension, view) \ {cur} :
        /\ RatioEq(r.momSessionsChange,
                   PeriodDelta(BucketTotal(r.dimension, view, cur, "sessions"),
                               BucketTotal(r.dimension, view, prev, "sessions")))
        /\ RatioEq(r.momAttendanceChange,
                   PeriodDelta(BucketTotal(r.dimension, view, cur, "attendance"),
                               BucketTotal(r.dimension, view, prev, "attendance")))
        /\ RatioEq(r.momRevenueChange,
                   PeriodDelta(BucketTotal(r.dimension, view, cur, "revenue"),
                               BucketTotal(r.dimension, view, prev, "revenue")))

\* the growths of a year-on-year row are the deltas of the totals of two
\* periods of the row's trainer
YearGrowthsAreDeltas(r) ==
  \E cur \in YearLabels(r.trainerName, r.location) :
    \E prev \in YearLabels(r.trainerName, r.location) \ {cur} :
      LET Delta(field) ==
            PeriodDelta(LabelTotal(r.trainerName, r.location, cur, field),
                        LabelTotal(r.trainerName, r.location, prev, field))
      IN /\ RatioEq(r.revenueGrowth, Delta("totalPaid"))
         /\ RatioEq(r.sessionGrowth, Delta("totalSessions"))
         /\ RatioEq(r.customerGrowth, Delta("totalCustomers"))
         /\ RatioEq(r.formatGrowth.PowerCycle, Delta("cycleRevenue"))
         /\ RatioEq(r.formatGrowth.Barre, Delta("barreRevenue"))
         /\ RatioEq(r.formatGrowth.StrengthLab, Delta("strengthRevenue"))

TrendsOutput == MonthOnMonthProcessed(data, trends)
VisitOutput == VisitMonthlyData(clientData)

\* the calendar months of the dated sessions of `data`
DatedMonths == {CalendarMonth(data[i]) : i \in 1..Len(data)} \ {""}

\* the calendar month of a client's first visit; "" when the record has no
\* firstVisitDate or one that cannot be parsed
VisitCalendarMonth(client) ==
  IF "firstVisitDate" \in DOMAIN client
  THEN (CASE client.firstVisitDate = "15/01/2024" -> "2024-01"
          [] client.firstVisitDate = "2024-02-10" -> "2024-02"
          [] OTHER -> "")
  ELSE ""

\* the period keys of the multi-metric table come from dated sessions
MultiMetricKeysDated ==
  \A i \in 1..Len(MultiMetricRows) :
    \A b \in 1..Len(MultiMetricRows[i].monthlyBreakdown) :
      MultiMetricRows[i].monthlyBreakdown[b].key \in DatedMonths

\* the month columns of the month-on-month trends table come from dated
\* sessions
TrendColumnsDated ==
  \A m \in 1..Len(TrendsOutput.allMonths) : TrendsOutput.allMonths[m] \in DatedMonths

\* the client table does not throw, and its rows count the dated clients
VisitRowsDated ==
  /\ ~VisitOutput.thrown
  /\ \A i \in 1..Len(VisitOutput.rows) :
       LET r == VisitOutput.rows[i]
       IN /\ r.sortKey # ""
          /\ r.totalMembers = Cardinality({c \in 1..Len(clientData) :
                                VisitCalendarMonth(clientData[c]) = r.sortKey})

\* C15: a record whose date is missing or cannot be parsed causes no error
\* and adds to no period bucket and no period column: the client-conversion
\* month-on-month table skips it, and the session trend tables get no month
\* key and no month column from it
C15_UndatedRecordsInNoPeriod ==
  /\ mounted = "multiMetric" => MultiMetricKeysDated
  /\ mounted = "monthOnMonthTrends" => TrendColumnsDated
  /\ mounted = "clientMonthOnMonth" => VisitRowsDated

Rankings ==
  GetCurrentRankings(TrainerStats(clientData), LocationStats(clientData), ranks)

\* the entries the ranking is taken from, in emission order
RankEntries ==
  IF ranks.activeRankingType = "locations_conversion" THEN LocationStats(clientData)
  ELSE TrainerStats(clientData)

\* the ranking key of an entry
RankKey(e, st) ==
  IF st.activeRankingType = "trainers_ltv" THEN e.avgLTV ELSE e.conversionRate

\* the inclusive minimum of the active ranking
Qualifies(e, st) ==
  CASE st.activeRankingType = "trainers_conversion" -> e.newMembers >= 3
    [] st.activeRankingType = "locations_conversion" -> e.newMembers >= 1
    [] st.activeRankingType = "trainers_ltv" -> e.totalClients >= 1

\* -1 when a ranks strictly better than b in the active view, 1 when worse
RankOrder(a, b, st) ==
  IF st.activeViewType = "top" THEN RatioCmp(RankKey(b, st), RankKey(a, st))
  ELSE RatioCmp(RankKey(a, st), RankKey(b, st))

\* the emission position of the entry called name
EmissionIndex(entries, name) == CHOOSE i \in 1..Len(entries) : entries[i].name = name

\* returned is the best five of the qualifying entries, ties in emission order
IsBestFive(returned, entries, st) ==
  LET qualifying == {i \in 1..Len(entries) : Qualifies(entries[i], st)}
      at == [p \in 1..Len(returned) |-> EmissionIndex(entries, returned[p].name)]
      chosen == {at[p] : p \in 1..Len(returned)}
  IN /\ Len(returned) <= 5
     /\ \A p \in 1..Len(returned) :
          /\ \E i \in 1..Len(entries) : entries[i].name = returned[p].name
          /\ entries[at[p]] = returned[p]
          /\ at[p] \in qualifying
     /\ Cardinality(chosen) = Len(returned)
     /\ Len(returned) < 5 => chosen = qualifying
     /\ \A p \in 1..Len(returned), q \in 1..Len(returned) :
          p < q =>
            /\ RankOrder(returned[p], returned[q], st) <= 0
            /\ RankOrder(returned[p], returned[q], st) = 0 => at[p] < at[q]
     /\ \A i \in qualifying \ chosen :
          /\ RankOrder(returned[Len(returned)], entries[i], st) <= 0
          /\ RankOrder(returned[Len(returned)], entries[i], st) = 0 =>
               at[Len(returned)] < i

\* C17: getCurrentRankings returns at most 5 entries, each an emitted entry
\* that meets the inclusive minimum of the active ranking; they are ordered
\* by the ranking key (non-increasing for 'top', non-decreasing for
\* 'bottom'); every qualifying entry left out ranks no better than the last
\* returned one; entries with equal keys keep their emission order.
C17_RankingIsBestFive ==
  mounted = "conversionRanks" => IsBestFive(Rankings, RankEntries, ranks)

\* returned is cut at five, a left-out entry ties with the last returned one,
\* the first ranks strictly better than the last, and one is exactly at the
\* minimum
IsCutAtFive(returned, entries, st) ==
  /\ Len(returned) = 5
  /\ \E i \in 1..Len(entries) :
       /\ Qualifies(entries[i], st)
       /\ \A p \in 1..5 : returned[p].name # entries[i].name
       /\ RankOrder(returned[5], entries[i], st) = 0
  /\ RankOrder(returned[1], returned[5], st) < 0
  /\ \E p \in 1..5 :
       IF st.activeRankingType = "trainers_conversion" THEN returned[p].newMembers = 3
       ELSE IF st.activeRankingType = "locations_conversion"
            THEN returned[p].newMembers = 1
            ELSE returned[p].totalClients = 1

\* a ranking of locations by conversion rate that is cut at five
C17_Witness ==
  /\ mounted = "conversionRanks"
  /\ ranks.activeRankingType = "locations_conversion"
  /\ IsCutAtFive(Rankings, RankEntries, ranks)

(***************************************************************************)
(* Properties of the rolled-up totals.                                     *)
(***************************************************************************)
\* the sum of a metric over a sequence of month buckets
BucketSum(buckets, metric) ==
  SumOver([i \in 1..Len(buckets) |-> buckets[i][metric]], 1..Len(buckets))

\* C18: in both session trend tables, every emitted trend row has total
\* sessions, total attendance and total revenue equal to the sums of the
\* sessions, attendance and revenue of its month buckets, for every input
\* and every dimension choice.
C18_TotalsAreBucketSums ==
  /\ mounted = "multiMetric" =>
       \A r \in 1..Len(MultiMetricRows) :
         LET row == MultiMetricRows[r]
         IN /\ row.totalSessions = BucketSum(row.monthlyBreakdown, "sessions")
            /\ row.totalAttendance = BucketSum(row.monthlyBreakdown, "attendance")
            /\ row.totalRevenue = BucketSum(row.monthlyBreakdown, "revenue")
  /\ mounted = "monthOnMonthTrends" =>
       \A r \in 1..Len(TrendsOutput.processedData) :
         LET row == TrendsOutput.processedData[r]
         IN /\ row.totalValues.sessions = BucketSum(row.months, "sessions")
            /\ row.totalValues.attendance = BucketSum(row.months, "attendance")
            /\ row.totalValues.revenue = BucketSum(row.months, "revenue")

\* the month-on-month trends table emits a row whose sessions lie in two
\* months, each with revenue, next to a month bucket without sessions
C18_Witness ==
  /\ mounted = "monthOnMonthTrends"
  /\ \E r \in 1..Len(TrendsOutput.processedData) :
       LET row == TrendsOutput.processedData[r]
       IN /\ \E i \in 1..Len(row.months), j \in 1..Len(row.months) :
               /\ i # j
               /\ row.months[i].revenue > 0
               /\ row.months[j].revenue > 0
               /\ row.months[i].attendance > 0
          /\ \E i \in 1..Len(row.months) : row.months[i].sessions = 0

\* the rows of the PowerCycle/Barre/Strength month-on-month table
PcbMonthRows == MonthlyData(processedData)

\* C19: in PowerCycleBarreStrengthMonthOnMonthTable every trainer row has
\* totalRevenue equal to the sum of months[m].revenue and totalSessions
\* equal to the sum of months[m].sessions over the row's months, also when
\* several processed records share the trainer, the location and the month.
C19_TrainerTotalsAreMonthSums ==
  mounted = "pcbMonthOnMonth" =>
    \A r \in 1..Len(PcbMonthRows) :
      /\ PcbMonthRows[r].totalRevenue = BucketSum(PcbMonthRows[r].months, "revenue")
      /\ PcbMonthRows[r].totalSessions = BucketSum(PcbMonthRows[r].months, "sessions")

(***************************************************************************)
(* Properties of the derived fields.                                       *)
(***************************************************************************)
\* the arrays that hold the sessions of d in another order
Reorderings(d) ==
  {[i \in 1..Len(d) |-> d[p[i]]] : p \in Permutations(1..Len(d))}

\* every bucket of rows has a bucket of the same dimension and month in
\* others, with the same fillRate
SameFillRates(rows, others) ==
  \A r \in 1..Len(rows) :
    \E o \in 1..Len(others) :
      /\ others[o].dimension = rows[r].dimension
      /\ \A b \in 1..Len(rows[r].monthlyBreakdown) :
           LET bucket == rows[r].monthlyBreakdown[b]
           IN /\ ObjHas(others[o].monthlyBreakdown, bucket.key)
              /\ RatioEq(ObjGet(others[o].monthlyBreakdown, bucket.key).fillRate,
                         bucket.fillRate)

\* C20: in MultiMetricMonthlyTrendsTable the fillRate of every month bucket
\* depends on the bucket's accumulated totals only: an input that holds the
\* same sessions in another order yields the same fillRate for every
\* dimension and month, also when sessions of one bucket differ in capacity.
C20_FillRateIsOrderIndependent ==
  mounted = "multiMetric" =>
    \A d \in Reorderings(data) :
      SameFillRates(MultiMetricRows, ProcessedTrendData(d, multiMetric))

(***************************************************************************)
(* Properties of the payroll trends.                                       *)
(***************************************************************************)
\* the rows of the same location and teacher for the month before a row's
PreviousMonthRows(rows, r) ==
  {j \in 1..Len(rows) :
     /\ rows[j].location = rows[r].location
     /\ rows[j].teacherName = rows[r].teacherName
     /\ rows[j].monthYear = CalendarPrevMonth(rows[r].monthYear)}

\* every row with a previous-month row reports the difference of the two
\* final fill rates
FillRateChangesAreFinal(rows) ==
  \A r \in 1..Len(rows) :
    \A j \in PreviousMonthRows(rows, r) :
      /\ rows[r].hasTrends
      /\ RatioEq(rows[r].fillRateChange, RatioSub(rows[r].fillRate, rows[j].fillRate))

\* C21: in ImprovedClassAttendancePayrollTable, whenever a row has a
\* previous-month row, trends.fillRateChange equals the row's final fillRate
\* minus the previous-month row's final fillRate, whatever the order of the
\* records in the input.
C21_FillRateChangeUsesFinalRates ==
  mounted = "improvedPayroll" => FillRateChangesAreFinal(ImprovedRows)

(***************************************************************************)
(* Properties of the payroll matrix under the summary headers.             *)
(***************************************************************************)
\* rows are ordered by a total in a direction
OrderedByTotal(rows, total, sortDirection) ==
  \A i \in 1..Len(rows), j \in 1..Len(rows) :
    i < j =>
      IF sortDirection = "desc" THEN rows[i].totals[total] >= rows[j].totals[total]
      ELSE rows[i].totals[total] <= rows[j].totals[total]

\* C22: in the payroll matrix, after the 'Total Sessions' header (resp.
\* 'Total Revenue') is clicked, the rows are ordered by totals.totalSessions
\* (resp. totals.totalPaid) in the current sort direction: non-increasing
\* for 'desc', non-decreasing for 'asc'.
C22_SummaryHeaderOrdersRows ==
  mounted = "payrollMatrix" =>
    /\ matrix.sortBy = "totals.totalSessions" =>
         OrderedByTotal(MatrixRows, "totalSessions", matrix.sortDirection)
    /\ matrix.sortBy = "totals.totalPaid" =>
         OrderedByTotal(MatrixRows, "totalPaid", matrix.sortDirection)

(***************************************************************************)
(* Properties of the growth column.                                        *)
(***************************************************************************)
\* the month columns of the month-on-month table
PcbColumns == PcbAllMonths(PcbMonthRows)

\* the position of a month among the columns
ColumnIndex(columns, month) == CHOOSE i \in 1..Len(columns) : columns[i] = month

\* the bucket of the row's month that comes first (last) among the columns
FirstMonthOf(row, columns) ==
  CHOOSE b \in {row.months[i] : i \in 1..Len(row.months)} :
    \A i \in 1..Len(row.months) :
      ColumnIndex(columns, b.key) <= ColumnIndex(columns, row.months[i].key)

LastMonthOf(row, columns) ==
  CHOOSE b \in {row.months[i] : i \in 1..Len(row.months)} :
    \A i \in 1..Len(row.months) :
      ColumnIndex(columns, b.key) >= ColumnIndex(columns, row.months[i].key)

\* every month of the row is labelled 'Mon-YYYY'
AllLabelled(row) == \A i \in 1..Len(row.months) : IsNumber(LabelYear(row.months[i].key))

\* growth is the guarded change from the first to the last column of the row
GrowthIsFirstToLast(rows, columns) ==
  \A r \in 1..Len(rows) :
    (Len(rows[r].months) >= 2 /\ AllLabelled(rows[r])) =>
      LET first == FirstMonthOf(rows[r], columns)
          last == LastMonthOf(rows[r], columns)
      IN RatioEq(rows[r].growth,
                 IF first.revenue > 0 THEN DeltaPct(last.revenue, first.revenue)
                 ELSE Zero)

\* C23: in PowerCycleBarreStrengthMonthOnMonthTable, for a trainer with at
\* least two months labelled 'Mon-YYYY', growth is the change of revenue from
\* the chronologically first to the chronologically last month, in percent
\* of the first month's revenue when that is above 0 and 0 otherwise; first
\* and last follow the order of the table's month columns.
C23_GrowthIsChronological ==
  mounted = "pcbMonthOnMonth" => GrowthIsFirstToLast(PcbMonthRows, PcbColumns)

(***************************************************************************)
(* Properties of the format comparison.                                    *)
(***************************************************************************)
\* the value of a metric for the format named by getWinner
WinnerValue(item) ==
  CASE item.winner = "powercycle" -> item.powerCycle
    [] item.winner = "barre" -> item.barre
    [] item.winner = "strength" -> item.strength

\* the winner of every metric is one of the three formats and has the best
\* value: the least when lower is better, the greatest otherwise
WinnersAreBest(items) ==
  \A i \in 1..Len(items) :
    /\ items[i].winner \in {"powercycle", "barre", "strength"}
    /\ \A v \in {items[i].powerCycle, items[i].barre, items[i].strength} :
         IF items[i].lowerIsBetter THEN RatioCmp(WinnerValue(items[i]), v) <= 0
         ELSE RatioCmp(WinnerValue(items[i]), v) >= 0

\* C24: in PowerCycleBarreStrengthComparison the format reported as winner
\* of a metric flagged lowerIsBetter (Empty Sessions) has the minimum value
\* among PowerCycle, Barre and Strength, the winner of every other metric
\* has the maximum value, and every metric has exactly one winner.
C24_WinnerHasBestValue ==
  mounted = "pcbComparison" => WinnersAreBest(ComparisonWinners(payrollData))

\* C25: in the enhanced ranking table the sort field always equals the
\* ranking criterion, so the header that shows the sort arrow names the field
\* the rows are ordered by.
C25_SortFieldIsRankingCriteria ==
  mounted = "enhanced" => enhanced.sortField = enhanced.rankingCriteria

\* the Ranking Criteria select has chosen a criterion other than the sort field
C25_CriterionDiffers ==
  /\ mounted = "enhanced"
  /\ enhanced.sortField = "totalSessions"
  /\ enhanced.rankingCriteria = "fillRate"
  /\ Len(EnhProcessedData(data, enhanced)) = 2

\* the state of a freshly mounted enhanced table
EnhFresh ==
  [rankingCriteria |-> "totalSessions", viewOption |-> "detailed",
   groupingOption |-> "uniqueId1", minSessions |-> 2,
   sortField |-> "totalSessions", sortDirection |-> "desc"]

\* C30: pressing Reset in the enhanced ranking table, from any reachable
\* state, leaves the displayed rows equal, in content and in order, to those
\* of a freshly mounted table on the same data.
C30_ResetRestoresFreshRows ==
  [][EnhReset => EnhProcessedData(data', enhanced') = EnhProcessedData(data, EnhFresh)]_vars

\* Reset has been pressed after a header click turned the direction, and the
\* rows are in the reverse of the fresh order
C30_ResetKeepsDirection ==
  /\ mounted = "enhanced"
  /\ enhanced = [EnhFresh EXCEPT !.sortDirection = "asc"]
  /\ Len(EnhProcessedData(data, enhanced)) = 2
  /\ EnhProcessedData(data, enhanced) # EnhProcessedData(data, EnhFresh)

\* C26: in the uniqueId table, after any sequence of page changes, header
\* clicks and changes of the data, 1 <= currentPage <= max(1, totalPages), and
\* the displayed page has a row whenever a row qualifies.
C26_CurrentPageWithinPages ==
  mounted = "uidRanking" /\ Len(data) > 0 =>
    LET sorted == SortedPerformance(data, uidRanking)
        totalPages == TotalPages(sorted)
    IN /\ 1 <= uidRanking.currentPage
       /\ uidRanking.currentPage <= (IF totalPages < 1 THEN 1 ELSE totalPages)
       /\ Len(sorted) > 0 => Len(PaginatedData(sorted, uidRanking.currentPage)) > 0

\* the data shrank to one page while the second page was shown: rows qualify,
\* none is displayed
C26_PageBeyondData ==
  /\ mounted = "uidRanking"
  /\ uidRanking.currentPage = 2
  /\ LET sorted == SortedPerformance(data, uidRanking)
     IN /\ Len(sorted) = 1
        /\ PaginatedData(sorted, uidRanking.currentPage) = <<>>

\* C27: the uniqueId table makes the same sequence of hook calls on every
\* render, whatever data props follow one another, so no render after the
\* first one fails.
C27_SameHooksOnEveryRender ==
  [][mounted = "uidRanking" => HookCalls(data') = HookCalls(data)]_vars

\* the table was mounted with rows, then rendered without data: the render
\* made fewer hook calls than the one before and the tree is gone
C27_RenderFailed ==
  mounted = "" /\ Len(data) = 0

\* the counts of the three views agree on the clients d
CountsAgree(d) ==
  LET totals == VisitTotals(VisitMonthlyData(d).rows)
      cards == MetricCardCounts(d)
      trainerStats == TrainerStats(d)
  IN /\ totals.newMembers = cards.newMembers
     /\ totals.converted = cards.convertedMembers
     /\ totals.retained = cards.retainedMembers
     /\ SumColumn(trainerStats, "newMembers") = cards.newMembers
     /\ SumColumn(trainerStats, "converted") = cards.convertedMembers
     /\ SumColumn(trainerStats, "retained") = cards.retainedMembers

\* C28: on clients whose firstVisitDate parses, the TOTAL row of the
\* month-on-month client conversion table (new members, converted, retained)
\* equals the counts of the metric cards and of the trainer statistics, for
\* every value of isNew, conversionStatus and retentionStatus.
C28_ClientCountsAgree ==
  mounted = "clientConversion" => CountsAgree(clientData)

\* one client that is 'Not Converted': a conversion for the month table, none
\* for the cards
C28_NotConvertedCounted ==
  /\ mounted = "clientConversion"
  /\ Len(clientData) = 1
  /\ clientData[1].conversionStatus = "Not Converted"
  /\ VisitTotals(VisitMonthlyData(clientData).rows).converted = 1
  /\ MetricCardCounts(clientData).convertedMembers = 0

\* the fields of a payroll record and of its processed row, per format
FormatFields ==
  {<<"cycleSessions", "cycleSessions">>, <<"emptyCycleSessions", "emptyCycleSessions">>,
   <<"nonEmptyCycleSessions", "nonEmptyCycleSessions">>,
   <<"cycleCustomers", "cycleCustomers">>, <<"cyclePaid", "cycleRevenue">>,
   <<"barreSessions", "barreSessions">>, <<"emptyBarreSessions", "emptyBarreSessions">>,
   <<"nonEmptyBarreSessions", "nonEmptyBarreSessions">>,
   <<"barreCustomers", "barreCustomers">>, <<"barrePaid", "barreRevenue">>,
   <<"strengthSessions", "strengthSessions">>,
   <<"emptyStrengthSessions", "emptyStrengthSessions">>,
   <<"nonEmptyStrengthSessions", "nonEmptyStrengthSessions">>,
   <<"strengthCustomers", "strengthCustomers">>, <<"strengthPaid", "strengthRevenue">>}

\* the processed rows carry the fields `fields` of the records, in input order
RowsCarry(payroll, rows, fields) ==
  /\ Len(rows) = Len(payroll)
  /\ \A i \in 1..Len(payroll) :
       /\ rows[i].trainerName = payroll[i].teacherName
       /\ \A f \in fields :
            rows[i][f[2]] = OrZero(TrainerField(payroll[i], f[1]))

\* C29: processTrainerData maps each payroll record to one processed row, in
\* input order, whose sessions, empty and non-empty sessions, customers and
\* revenue of each of the three formats equal the record's fields (0 when
\* missing).
C29_ProcessedRowsCarryFormats ==
  mounted = "pcbSection" =>
    RowsCarry(ApplyFilters(payrollData, activeLocation), processedData, FormatFields)

\* a record with Strength Lab sessions whose processed row has none
C29_StrengthDropped ==
  /\ mounted = "pcbSection"
  /\ Len(payrollData) = 1
  /\ Len(processedData) = 1
  /\ payrollData[1].strengthSessions = 2
  /\ processedData[1].strengthSessions = 0

====
